---- MODULE Spec2Model ----
(***************************************************************************)
(* Lark connector: the WebSocket monitor (connection loop, event handler,  *)
(* inbound gate in processMessage) and the retrying API wrapper.           *)
(* Strings are tuples of one-character strings so that lower-casing,       *)
(* trimming and prefix stripping are computed, not assumed.                *)
(***************************************************************************)
EXTENDS Integers, Sequences, FiniteSets, TLC

(* ------------------------------ bounds -------------------------------- *)
\* cap on the total number of WSClient.start() invocations in one run
MaxStarts == 12
\* Math.random() is drawn from {0/JitterSteps, ..., (JitterSteps-1)/JitterSteps}
JitterSteps == 2
\* handler invocations that may be suspended at an await at the same time
MaxInflight == 2
\* handler invocations (delivered events) in one run of the gate
MaxEvents == 2
\* handler invocations (delivered events) in one run of the connection loop
MaxLoopEvents == 1

(* ------------------------- program constants -------------------------- *)
MAX_RECONNECT_ATTEMPTS == 10
WS_initialMs == 1000
WS_maxMs == 60000
WS_factor == 2
\* WS_RECONNECT_POLICY.jitter is 0.2, kept as the fraction 1/WS_jitterInv
WS_jitterInv == 5
RETRY_maxAttempts == 3
RETRY_initialDelayMs == 500
RETRY_maxDelayMs == 5000
RETRY_factor == 2

(* ------------------------------ strings ------------------------------- *)
UpperCase ==
    <<"A", "B", "C", "D", "E", "F", "G", "H", "I", "J", "K", "L", "M",
      "N", "O", "P", "Q", "R", "S", "T", "U", "V", "W", "X", "Y", "Z">>
LowerCase ==
    <<"a", "b", "c", "d", "e", "f", "g", "h", "i", "j", "k", "l", "m",
      "n", "o", "p", "q", "r", "s", "t", "u", "v", "w", "x", "y", "z">>

ToLowerChar(c) ==
    IF \E k \in 1..26 : UpperCase[k] = c
    THEN LowerCase[CHOOSE k \in 1..26 : UpperCase[k] = c]
    ELSE c

toLowerCase(s) == [k \in 1..Len(s) |-> ToLowerChar(s[k])]

IsSpace(c) == c \in {" ", "\n", "\t"}

RECURSIVE trimStart(_)
trimStart(s) == IF s # <<>> /\ IsSpace(Head(s)) THEN trimStart(Tail(s)) ELSE s

RECURSIVE trimEnd(_)
trimEnd(s) ==
    IF s # <<>> /\ IsSpace(s[Len(s)]) THEN trimEnd(SubSeq(s, 1, Len(s) - 1)) ELSE s

trim(s) == trimEnd(trimStart(s))

startsWith(s, p) == Len(s) >= Len(p) /\ SubSeq(s, 1, Len(p)) = p

\* the alternatives of /^(lark|feishu|fs):/, in the order the regex tries them
ChannelPrefixes ==
    << <<"l","a","r","k",":">>, <<"f","e","i","s","h","u",":">>, <<"f","s",":">> >>

\* entry.replace(/^(lark|feishu|fs):/i, ""): one leading prefix is removed
stripChannelPrefix(s) ==
    LET hits == {k \in 1..Len(ChannelPrefixes) : startsWith(toLowerCase(s), ChannelPrefixes[k])}
    IN  IF hits = {} THEN s
        ELSE LET k == CHOOSE h \in hits : \A g \in hits : h <= g
             IN  SubSeq(s, Len(ChannelPrefixes[k]) + 1, Len(s))

WILDCARD == <<"*">>

normalizeAllowEntry(entry) == stripChannelPrefix(toLowerCase(entry))

isSenderAllowed_StripsSender(senderId, allowFrom) ==
    \/ \E k \in 1..Len(allowFrom) : allowFrom[k] = WILDCARD
    \/ \E k \in 1..Len(allowFrom) :
          normalizeAllowEntry(allowFrom[k]) = normalizeAllowEntry(senderId)

isSenderAllowed(senderId, allowFrom) ==
    \/ \E k \in 1..Len(allowFrom) : allowFrom[k] = WILDCARD
    \/ \E k \in 1..Len(allowFrom) :
          normalizeAllowEntry(allowFrom[k]) = toLowerCase(senderId)

(* ------------------------- inbound messages --------------------------- *)
Undefined == <<"undefined">>

SenderA == <<"a">>
SenderB == <<"b">>
Senders == {SenderA, SenderB}

\* message.content after JSON.parse: json = FALSE when JSON.parse throws
TextMsg(t) ==
    [type |-> "text", json |-> TRUE, raw |-> <<"{", "}">>, text |-> t,
     image_key |-> Undefined, rows |-> <<>>]
ImageMsg(key) ==
    [type |-> "image", json |-> TRUE, raw |-> <<"{", "}">>, text |-> Undefined,
     image_key |-> key, rows |-> <<>>]
PostMsg(rows) ==
    [type |-> "post", json |-> TRUE, raw |-> <<"{", "}">>, text |-> Undefined,
     image_key |-> Undefined, rows |-> rows]
BadJsonMsg(type, raw) ==
    [type |-> type, json |-> FALSE, raw |-> raw, text |-> Undefined,
     image_key |-> Undefined, rows |-> <<>>]
NoMsg == BadJsonMsg("none", <<>>)

TextNode(t) == [tag |-> "text", text |-> t]
AtNode == [tag |-> "at", text |-> Undefined]

Messages ==
    { TextMsg(<<"h">>), TextMsg(<<" ">>), ImageMsg(<<"k">>),
      PostMsg(<< <<TextNode(<<"h">>), AtNode>> >>), BadJsonMsg("text", <<"h">>) }

GateMessages ==
    { TextMsg(<<"h">>), TextMsg(<<" ">>), ImageMsg(<<"k">>), BadJsonMsg("text", <<"h">>) }

RECURSIVE joinStrings(_, _)
joinStrings(parts, sep) ==
    IF parts = <<>> THEN <<>>
    ELSE IF Len(parts) = 1 THEN parts[1]
    ELSE parts[1] \o sep \o joinStrings(Tail(parts), sep)

\* extractText on a leaf node of a post row
extractNodeText(n) == IF n.tag = "text" /\ n.text # Undefined THEN n.text ELSE <<>>

\* extractText(parsed) for a post: rows joined by "\n", nodes of a row by ""
extractText(rows) ==
    joinStrings([r \in 1..Len(rows) |->
                    joinStrings([c \in 1..Len(rows[r]) |-> extractNodeText(rows[r][c])], <<>>)],
                <<"\n">>)

parseMessageContent_DropsUnparseable(m) ==
    IF ~m.json THEN [text |-> Undefined, imageKey |-> Undefined]
    ELSE IF m.type = "text" THEN [text |-> m.text, imageKey |-> Undefined]
    ELSE IF m.type = "image" THEN [text |-> Undefined, imageKey |-> m.image_key]
    ELSE IF m.type = "post" THEN [text |-> extractText(m.rows), imageKey |-> Undefined]
    ELSE [text |-> m.raw, imageKey |-> Undefined]

parseMessageContent(m) ==
    IF ~m.json THEN [text |-> m.raw, imageKey |-> Undefined]
    ELSE IF m.type = "text" THEN [text |-> m.text, imageKey |-> Undefined]
    ELSE IF m.type = "image" THEN [text |-> Undefined, imageKey |-> m.image_key]
    ELSE IF m.type = "post" THEN [text |-> extractText(m.rows), imageKey |-> Undefined]
    ELSE [text |-> m.raw, imageKey |-> Undefined]

MEDIA_IMAGE == <<"<media:image>">>

\* text?.trim() || (imageKey ? "<media:image>" : "")
RawBody(m) ==
    LET p == parseMessageContent(m)
        t == IF p.text = Undefined THEN <<>> ELSE trim(p.text)
    IN  IF t # <<>> THEN t
        ELSE IF p.imageKey # Undefined /\ p.imageKey # <<>> THEN MEDIA_IMAGE ELSE <<>>

(* --------------------------- configuration ---------------------------- *)
DmPolicies == {"unset", "pairing", "allowlist", "open", "disabled"}
AllowLists == { <<>>, <<WILDCARD>>, <<SenderA>>, << <<"F", "S", ":", "A">> >> }
RequireMentionValues == {"unset", "true", "false"}
Accounts ==
    [dmPolicy : DmPolicies, allowFrom : AllowLists, requireMention : RequireMentionValues]
PairingCodes == {"K1", "K2"}

(* ------------------------------- state -------------------------------- *)
VARIABLES
    account,           \* resolved account config, fixed at connector start
    stopped,           \* monitorLarkProvider: let stopped
    aborted,           \* abortSignal.aborted
    currentWsClient,   \* 0 is null, otherwise the number of the WS client
    reconnectAttempt,  \* let reconnectAttempt
    loopPc,            \* where startConnection stands
    wake,              \* state of the promise startConnection awaits
    backoffMs,         \* the delay of the pending backoff sleep
    wsCreated,         \* number of createLarkWSClient calls
    wsStarts,          \* number of WSClient.start() invocations
    maxLogged,         \* "Max reconnect attempts reached" was logged
    consecFail,        \* history: failed start() calls since the last health proof
    everHealthy,       \* history: some start() resolved or some event was accepted
    ev,                \* the handler invocations (one record per slot)
    delivered,         \* number of events the transport has delivered
    approved,          \* pairing store: approved sender ids (readAllowFromStore)
    pending,           \* pairing store: sender id -> code of its pending request
    pairReplies,       \* history: sender id -> number of pairing replies sent to it
    rPc, rAttempt, rTrace,  \* one withRetry call: position, attempt, calls and sleeps
    connDropped,       \* the established connection has failed (the SDK reports nothing)
    monitors,          \* the connection loops begun by monitorLarkProvider calls
    qSender, qAllowFrom, qAllowed,  \* one isSenderAllowed call: arguments and result
    api,               \* one call of an API client function (api.ts)
    chunking,          \* one chunkText call: arguments, loop state and result
    reply,             \* one outbound delivery: deliverLarkReply or sendMessageLark
    fcall              \* one call of a pure function: arguments and result

connVars == <<stopped, aborted, currentWsClient, loopPc, wake, backoffMs, wsCreated,
              wsStarts, maxLogged, connDropped>>
healthVars == <<reconnectAttempt, consecFail, everHealthy>>
storeVars == <<approved, pending, pairReplies>>
retryVars == <<rPc, rAttempt, rTrace>>
evVars == <<ev, delivered>>
outVars == <<api, chunking, reply, fcall>>
auxVars == <<monitors, qSender, qAllowFrom, qAllowed, outVars>>
vars == <<account, connVars, healthVars, evVars, storeVars, retryVars, auxVars>>

(* -------------------------- connection loop --------------------------- *)
RECURSIVE Pow(_, _)
Pow(b, n) == IF n <= 0 THEN 1 ELSE b * Pow(b, n - 1)

Min(a, b) == IF a <= b THEN a ELSE b
Max(a, b) == IF a >= b THEN a ELSE b

\* Math.round of the non-negative fraction num/den
RoundDiv(num, den) == (2 * num + den) \div (2 * den)

\* computeBackoff(attempt) with Math.random() = r / steps
computeBackoffAt_NoCap(attempt, r, steps) ==
    LET base == WS_initialMs * Pow(WS_factor, Max(attempt - 1, 0))
    IN  RoundDiv(base * (WS_jitterInv * steps + r), WS_jitterInv * steps)

computeBackoffAt(attempt, r, steps) ==
    LET base == WS_initialMs * Pow(WS_factor, Max(attempt - 1, 0))
        \* base + base * jitter * random = base * (inv*steps + r) / (inv*steps)
        num == base * (WS_jitterInv * steps + r)
        den == WS_jitterInv * steps
    IN  Min(WS_maxMs, RoundDiv(num, den))

computeBackoff(attempt, r) == computeBackoffAt(attempt, r, JitterSteps)

RandomDraws == 0..(JitterSteps - 1)

\* the while condition of startConnection, with the counter's current value
LoopCond_IgnoresStopped(attempt) == ~aborted /\ attempt < MAX_RECONNECT_ATTEMPTS

LoopCond_OffByOne(attempt) == ~stopped /\ ~aborted /\ attempt <= MAX_RECONNECT_ATTEMPTS

LoopCond(attempt) == ~stopped /\ ~aborted /\ attempt < MAX_RECONNECT_ATTEMPTS

\* the statements after the while loop, reached by a break or a false condition
ExitLoop(attempt) ==
    /\ maxLogged' = (attempt >= MAX_RECONNECT_ATTEMPTS)
    /\ loopPc' = "done"

\* the loop test and, when it holds, createLarkWSClient and start() up to its await
EnterLoop(attempt) ==
    IF LoopCond(attempt)
    THEN /\ wsStarts < MaxStarts
         /\ wsCreated' = wsCreated + 1
         /\ currentWsClient' = wsCreated + 1
         /\ wsStarts' = wsStarts + 1
         /\ loopPc' = "starting"
         /\ UNCHANGED maxLogged
    ELSE /\ ExitLoop(attempt)
         /\ UNCHANGED <<wsCreated, currentWsClient, wsStarts>>

\* void startConnection(), and every return to the top of the loop after a sleep
LoopTop ==
    /\ loopPc = "top"
    /\ EnterLoop(reconnectAttempt)
    /\ UNCHANGED <<account, stopped, aborted, wake, backoffMs, healthVars, evVars, storeVars,
                   retryVars, auxVars,
                   connDropped>>

\* start() resolved: counter reset, then the wait-until-abort promise is created
StartResolved ==
    /\ loopPc = "starting"
    /\ reconnectAttempt' = 0
    /\ consecFail' = 0
    /\ everHealthy' = TRUE
    /\ loopPc' = "connected"
    /\ wake' = IF stopped \/ aborted THEN "resolved" ELSE "pending"
    /\ UNCHANGED <<account, stopped, aborted, currentWsClient, backoffMs, wsCreated,
                   wsStarts, maxLogged, evVars, storeVars, retryVars, auxVars,
                   connDropped>>

\* the wait promise resolved: break, then the statements after the loop
ConnectedWake ==
    /\ loopPc = "connected"
    /\ wake = "resolved"
    /\ ExitLoop(reconnectAttempt)
    /\ wake' = "none"
    /\ UNCHANGED <<account, stopped, aborted, currentWsClient, backoffMs, wsCreated,
                   wsStarts, healthVars, evVars, storeVars, retryVars, auxVars,
                   connDropped>>

\* if (reconnectAttempt < MAX_RECONNECT_ATTEMPTS) { ... sleepWithAbort ... }
BackoffDue_Never(attempt) == FALSE

BackoffDue(attempt) == attempt < MAX_RECONNECT_ATTEMPTS

\* start() rejected (or createLarkWSClient threw): the catch block
StartRejected ==
    /\ loopPc = "starting"
    /\ reconnectAttempt' = reconnectAttempt + 1
    /\ consecFail' = consecFail + 1
    /\ IF stopped \/ aborted
       THEN /\ ExitLoop(reconnectAttempt + 1)
            /\ UNCHANGED <<wake, backoffMs, wsCreated, currentWsClient, wsStarts>>
       ELSE IF BackoffDue(reconnectAttempt + 1)
       THEN /\ \E r \in RandomDraws : backoffMs' = computeBackoff(reconnectAttempt + 1, r)
            /\ wake' = "pending"
            /\ loopPc' = "sleeping"
            /\ UNCHANGED <<maxLogged, wsCreated, currentWsClient, wsStarts>>
       ELSE \* no sleep: straight back to the loop test, without an await in between
            /\ EnterLoop(reconnectAttempt + 1)
            /\ UNCHANGED <<wake, backoffMs>>
    /\ UNCHANGED <<account, stopped, aborted, everHealthy, evVars, storeVars, retryVars, auxVars,
                   connDropped>>

\* the backoff timer fired: sleepWithAbort resolves true, back to the loop test
\* (the block-scoped backoffMs is gone)
SleepTimer ==
    /\ loopPc = "sleeping"
    /\ wake = "pending"
    /\ loopPc' = "top"
    /\ wake' = "none"
    /\ backoffMs' = 0
    /\ UNCHANGED <<account, stopped, aborted, currentWsClient, wsCreated,
                   wsStarts, maxLogged, healthVars, evVars, storeVars, retryVars, auxVars,
                   connDropped>>

\* sleepWithAbort resolved false (onAbort cleared the timer): break
SleepAborted ==
    /\ loopPc = "sleeping"
    /\ wake = "resolved"
    /\ ExitLoop(reconnectAttempt)
    /\ wake' = "none"
    /\ backoffMs' = 0
    /\ UNCHANGED <<account, stopped, aborted, currentWsClient, wsCreated,
                   wsStarts, healthVars, evVars, storeVars, retryVars, auxVars,
                   connDropped>>

\* the established connection fails. The SDK exposes no close event and start()
\* has already resolved, so no code of the monitor runs: the loop keeps waiting
ConnectionDropped ==
    /\ loopPc = "connected"
    /\ ~connDropped
    /\ connDropped' = TRUE
    /\ UNCHANGED <<account, stopped, aborted, currentWsClient, loopPc, wake, backoffMs,
                   wsCreated, wsStarts, maxLogged, healthVars, evVars, storeVars,
                   retryVars, auxVars>>

\* handle.stop()
Stop_AbortsInflight ==
    /\ stopped' = TRUE
    /\ currentWsClient' = 0
    /\ ev' = [i \in DOMAIN ev |->
                 IF ev[i].pc \in {"idle", "done"} THEN ev[i]
                 ELSE [ev[i] EXCEPT !.pc = "done", !.outcome = "error"]]
    /\ UNCHANGED <<account, aborted, loopPc, wake, backoffMs, wsCreated, wsStarts,
                   maxLogged, healthVars, delivered, storeVars, retryVars, auxVars,
                   connDropped>>

Stop_ResetsCounter ==
    /\ stopped' = TRUE
    /\ currentWsClient' = 0
    /\ reconnectAttempt' = 0
    /\ UNCHANGED <<account, aborted, loopPc, wake, backoffMs, wsCreated, wsStarts,
                   maxLogged, consecFail, everHealthy, evVars, storeVars, retryVars,
                   auxVars, connDropped>>

Stop ==
    /\ stopped' = TRUE
    /\ currentWsClient' = 0
    /\ UNCHANGED <<account, aborted, loopPc, wake, backoffMs, wsCreated, wsStarts,
                   maxLogged, healthVars, evVars, storeVars, retryVars, auxVars,
                   connDropped>>

\* onAbort of the promise being awaited: clearTimeout(timer); resolve(false) in
\* sleepWithAbort, resolve() in the wait after a resolved start()
WakeOnAbort_Ignored(w) == w

WakeOnAbort(w) == IF w = "pending" THEN "resolved" ELSE w

\* the abort signal fires: the monitor's listener, and the listener of whichever
\* promise startConnection is awaiting (sleepWithAbort's onAbort, the wait's onAbort)
Abort ==
    /\ ~aborted
    /\ aborted' = TRUE
    /\ stopped' = TRUE
    /\ currentWsClient' = 0
    /\ wake' = WakeOnAbort(wake)
    /\ UNCHANGED <<account, loopPc, backoffMs, wsCreated, wsStarts, maxLogged,
                   healthVars, evVars, storeVars, retryVars, auxVars,
                   connDropped>>

(* --------------------- event handler and the gate --------------------- *)
Slots == 1..MaxInflight

IdleEv ==
    [pc |-> "idle", sender |-> <<>>, chat |-> "none", mentions |-> 0, msg |-> NoMsg,
     rawBody |-> <<>>, shouldAuth |-> FALSE, isControl |-> FALSE,
     storeAllowFrom |-> <<>>, storeFailed |-> FALSE, cmdAuth |-> "undefined",
     created |-> FALSE,
     code |-> "none", sent |-> <<>>, sendOk |-> FALSE, outcome |-> "none",
     effects |-> {}, afterStop |-> FALSE]

\* the handler's first statement: if (stopped || abortSignal.aborted) return
HandlerIgnores_AbortOnly == aborted

HandlerIgnores == stopped \/ aborted

\* isMentioned: isGroup && message.mentions?.length
IsMentioned(chat, mentions) == chat = "group" /\ mentions > 0

\* isGroup ? account.config.groups?.[chatId]?.requireMention ?? true : false
RequireMention_DefaultFalse(chat) == chat = "group" /\ account.requireMention = "true"

RequireMention(chat) == chat = "group" /\ account.requireMention # "false"

\* if (isGroup && requireMention && !isMentioned) return
MentionGateDrops(chat, mentions) ==
    chat = "group" /\ RequireMention(chat) /\ ~IsMentioned(chat, mentions)

\* account.config.dmPolicy ?? "pairing"
DmPolicy == IF account.dmPolicy = "unset" THEN "pairing" ELSE account.dmPolicy

\* !isGroup && (dmPolicy !== "open" || shouldComputeAuth)
NeedsStoreRead(chat, shouldAuth) == chat # "group" /\ (DmPolicy # "open" \/ shouldAuth)

\* if (!isGroup) { if (dmPolicy === "disabled") return
DmDisabledDrop_AllowListed(chat, allowed) ==
    chat # "group" /\ DmPolicy = "disabled" /\ ~allowed

DmDisabledDrop(chat, allowed) == chat # "group" /\ DmPolicy = "disabled"

\* if (dmPolicy !== "open") { if (!allowed) { ... return } }
DmNotAllowedDrop_PairingOnly(chat, allowed) ==
    chat # "group" /\ DmPolicy = "pairing" /\ ~allowed

DmNotAllowedDrop_OpenToo(chat, allowed) == chat # "group" /\ ~allowed

DmNotAllowedDrop(chat, allowed) == chat # "group" /\ DmPolicy # "open" /\ ~allowed

\* if (isGroup && isControlCommandMessage(rawBody) && commandAuthorized !== true) return
ControlCommandDrop_OnlyExplicitFalse(chat, isControl, cmdAuth) ==
    chat = "group" /\ isControl /\ cmdAuth = "false"

ControlCommandDrop_AnyChat(chat, isControl, cmdAuth) == isControl /\ cmdAuth # "true"

ControlCommandDrop(chat, isControl, cmdAuth) ==
    chat = "group" /\ isControl /\ cmdAuth # "true"

\* the handler returns (or its catch block has logged): the slot is settled
Finish(e, outcome) == [e EXCEPT !.pc = "done", !.outcome = outcome]

AddEffects(e, fx) == [e EXCEPT !.effects = @ \cup fx]

\* what resolveCommandAuthorizedFromAuthorizers may answer; it is consulted only
\* when shouldComputeAuth holds
AuthAnswers(shouldAuth) == IF shouldAuth THEN BOOLEAN ELSE {FALSE}

\* processMessage from the store result to the next await or return.
\* authResult is what resolveCommandAuthorizedFromAuthorizers answers.
\* if (dmPolicy === "pairing") { upsertPairingRequest ... } else { log }
PairingBranch_Always == TRUE

PairingBranch == DmPolicy = "pairing"

AfterStore(e, storeAllowFrom, authResult) ==
    LET effectiveAllowFrom == account.allowFrom \o storeAllowFrom
        senderAllowedForCommands == isSenderAllowed(e.sender, effectiveAllowFrom)
        commandAuthorized ==
            IF e.shouldAuth THEN (IF authResult THEN "true" ELSE "false") ELSE "undefined"
        e1 == [e EXCEPT !.storeAllowFrom = storeAllowFrom, !.cmdAuth = commandAuthorized]
    IN  IF DmDisabledDrop(e.chat, senderAllowedForCommands)
        THEN Finish(e1, "disabled")
        ELSE IF DmNotAllowedDrop(e.chat, senderAllowedForCommands)
        THEN IF PairingBranch
             THEN AddEffects([e1 EXCEPT !.pc = "upsert"], {"upsert"})
             ELSE Finish(e1, "unauthorized")
        ELSE LET e2 == AddEffects(e1, {"route"})
             IN  IF ControlCommandDrop(e.chat, e.isControl, commandAuthorized)
                 THEN Finish(e2, "controlDrop")
                 ELSE AddEffects([e2 EXCEPT !.pc = "record"], {"record"})

\* what shouldComputeCommandAuthorized and isControlCommandMessage may answer for a
\* body: <<shouldComputeAuth, isControlCommand>>
CommandAnswers == BOOLEAN \X BOOLEAN

\* if (!rawBody) return
EmptyDrop_Never(rawBody) == FALSE

EmptyDrop(rawBody) == rawBody = <<>>

\* processMessage from its first statement to the first await or return
ProcessStart(e, answers) ==
    IF EmptyDrop(e.rawBody)
    THEN {Finish(e, "empty")}
    ELSE IF MentionGateDrops(e.chat, e.mentions)
    THEN {Finish(e, "noMention")}
    ELSE UNION { LET e1 == [e EXCEPT !.shouldAuth = ans[1], !.isControl = ans[2]]
                 IN  IF NeedsStoreRead(e.chat, ans[1])
                     THEN {AddEffects([e1 EXCEPT !.pc = "readStore"], {"storeRead"})}
                     ELSE {AfterStore(e1, <<>>, auth) : auth \in AuthAnswers(ans[1])}
                 : ans \in answers }

ChatKinds == {"p2p", "group"}

\* a handler invocation that has settled leaves its slot to the next event
SlotFree(i) == ev[i].pc \in {"idle", "done"}

\* the transport invokes the im.message.receive_v1 handler with one event
\* reconnectAttempt = 0 in the event handler, before processMessage is called
CounterAfterEvent_Keeps(attempt) == attempt

CounterAfterEvent(attempt) == 0

Deliver(i, maxEvents, senders, msgs, answers) ==
    /\ wsStarts > 0
    /\ delivered < maxEvents
    /\ delivered' = delivered + 1
    /\ SlotFree(i)
    /\ \A j \in Slots : j < i => ~SlotFree(j)
    /\ \E sender \in senders, chat \in ChatKinds, msg \in msgs :
       \E mentions \in (IF chat = "group" THEN 0..1 ELSE {0}) :
          LET e0 == [IdleEv EXCEPT !.sender = sender, !.chat = chat,
                                   !.mentions = mentions, !.msg = msg,
                                   !.afterStop = stopped \/ aborted]
          IN  IF HandlerIgnores
              THEN /\ ev' = [ev EXCEPT ![i] = Finish(e0, "ignored")]
                   /\ UNCHANGED healthVars
              ELSE /\ reconnectAttempt' = CounterAfterEvent(reconnectAttempt)
                   /\ consecFail' = 0
                   /\ everHealthy' = TRUE
                   /\ \E e2 \in ProcessStart(
                                  AddEffects([e0 EXCEPT !.rawBody = RawBody(msg)],
                                             {"statusInbound", "counterReset"}),
                                  answers) :
                         ev' = [ev EXCEPT ![i] = e2]
    /\ UNCHANGED <<account, connVars, storeVars, retryVars, auxVars>>

\* variant whose catch handler hands back the store's entries
StoreAllowFromOnFailure_Entries(store) == store

\* readAllowFromStore("lark").catch(() => [])
StoreAllowFromOnFailure(store) == <<>>

\* readAllowFromStore settled; a rejection is caught and yields []
StoreRead(i) ==
    /\ ev[i].pc = "readStore"
    /\ \E ok \in BOOLEAN, auth \in AuthAnswers(ev[i].shouldAuth) :
          ev' = [ev EXCEPT ![i] =
                   AfterStore([ev[i] EXCEPT !.storeFailed = ~ok],
                              IF ok THEN approved ELSE StoreAllowFromOnFailure(approved),
                              auth)]
    /\ UNCHANGED <<account, connVars, healthVars, delivered, storeVars, retryVars, auxVars>>

\* if (created) { sendTextMessage(...) } -- whether the pairing reply is sent
PairingReplyDue_Always(created) == TRUE

PairingReplyDue(created) == created

\* the pairing store's upsert: the answers it may give for sender s
upsertPairingRequest(s) ==
    IF pending[s] = "none"
    THEN {[created |-> TRUE, code |-> c] : c \in PairingCodes}
    ELSE {[created |-> FALSE, code |-> pending[s]]}

\* history: marks an outbound call (pairing reply, reply dispatch) that processMessage
\* issues when the monitor is already stopped; processMessage itself never reads
\* stopped or the abort signal
IssuedAfterStop == IF stopped \/ aborted THEN {"afterStop"} ELSE {}

\* upsertPairingRequest settled; on created the pairing reply is sent
UpsertDone(i) ==
    /\ ev[i].pc = "upsert"
    /\ LET s == ev[i].sender
       IN  \E r \in upsertPairingRequest(s) :
              /\ pending' = [pending EXCEPT ![s] = r.code]
              /\ LET e1 == [ev[i] EXCEPT !.created = r.created, !.code = r.code]
                 IN  IF PairingReplyDue(r.created)
                     THEN /\ ev' = [ev EXCEPT ![i] =
                                AddEffects([e1 EXCEPT !.pc = "pairSend",
                                                      !.sent = Append(@, <<s, r.code>>)],
                                           {"send"} \cup IssuedAfterStop)]
                          /\ pairReplies' = [pairReplies EXCEPT ![s] = @ + 1]
                     ELSE /\ ev' = [ev EXCEPT ![i] = Finish(e1, "pairing")]
                          /\ UNCHANGED pairReplies
    /\ UNCHANGED <<account, connVars, healthVars, delivered, approved, retryVars, auxVars>>

\* upsertPairingRequest rejected: processMessage throws, the handler logs it
UpsertFailed(i) ==
    /\ ev[i].pc = "upsert"
    /\ ev' = [ev EXCEPT ![i] = Finish(ev[i], "error")]
    /\ UNCHANGED <<account, connVars, healthVars, delivered, storeVars, retryVars, auxVars>>

\* sendTextMessage settled (it never rejects); statusSink is called, then return
PairSendDone(i) ==
    /\ ev[i].pc = "pairSend"
    /\ \E ok \in BOOLEAN :
          ev' = [ev EXCEPT ![i] =
                    Finish(AddEffects([ev[i] EXCEPT !.sendOk = ok], {"statusOutbound"}),
                           "pairing")]
    /\ UNCHANGED <<account, connVars, healthVars, delivered, storeVars, retryVars, auxVars>>

\* recordInboundSession resolved: the reply dispatcher is called
RecordDone(i) ==
    /\ ev[i].pc = "record"
    /\ ev' = [ev EXCEPT ![i] = AddEffects([ev[i] EXCEPT !.pc = "dispatch"],
                                   {"dispatch"} \cup IssuedAfterStop)]
    /\ UNCHANGED <<account, connVars, healthVars, delivered, storeVars, retryVars, auxVars>>

\* recordInboundSession rejected: processMessage throws, the handler logs it
RecordFailed(i) ==
    /\ ev[i].pc = "record"
    /\ ev' = [ev EXCEPT ![i] = Finish(ev[i], "error")]
    /\ UNCHANGED <<account, connVars, healthVars, delivered, storeVars, retryVars, auxVars>>

\* dispatchReplyWithBufferedBlockDispatcher settled
DispatchDone(i) ==
    /\ ev[i].pc = "dispatch"
    /\ ev' = [ev EXCEPT ![i] = Finish(ev[i], "dispatched")]
    /\ UNCHANGED <<account, connVars, healthVars, delivered, storeVars, retryVars, auxVars>>

\* the operator approves a pending pairing request (outside the connector)
Approve(s) ==
    /\ pending[s] # "none"
    /\ pending' = [pending EXCEPT ![s] = "none"]
    /\ approved' = Append(approved, s)
    /\ UNCHANGED pairReplies
    /\ UNCHANGED <<account, connVars, healthVars, evVars, retryVars, auxVars>>

(* ------------------------------ withRetry ----------------------------- *)
\* RegExp.test with the i flag on a literal pattern: a case-blind substring search
includesIgnoreCase(s, pat) ==
    \E k \in 1..(Len(s) - Len(pat) + 1) :
        toLowerCase(SubSeq(s, k, k + Len(pat) - 1)) = toLowerCase(pat)

RETRYABLE_ERROR_CODES == {99991400, 99991663, 99991672}

RETRYABLE_ERROR_PATTERNS ==
    { <<"E","C","O","N","N","R","E","S","E","T">>,
      <<"E","T","I","M","E","D","O","U","T">>,
      <<"E","N","O","T","F","O","U","N","D">>,
      <<"E","C","O","N","N","R","E","F","U","S","E","D">>,
      <<"s","o","c","k","e","t"," ","h","a","n","g"," ","u","p">>,
      <<"n","e","t","w","o","r","k">> }

\* a thrown value: kind "Error" is an instance of Error, "object" any other object,
\* "string" a thrown string (message holds it); code 0 stands for no code property
NoError == [kind |-> "Error", code |-> 0, message |-> <<>>]
ApiError(code, message) == [kind |-> "Error", code |-> code, message |-> message]
PlainError(code, message) == [kind |-> "object", code |-> code, message |-> message]
ThrownString(text) == [kind |-> "string", code |-> 0, message |-> text]

\* String(error) of an object that is not an Error
OBJECT_OBJECT == <<"[","o","b","j","e","c","t"," ","O","b","j","e","c","t","]">>

\* error instanceof Error ? error.message : String(error)
errMsg(err) == IF err.kind = "object" THEN OBJECT_OBJECT ELSE err.message

RetryErrors ==
    { ApiError(99991400, <<"b","u","s","y">>),
      ApiError(99991663, <<"f","r","e","q">>),
      ApiError(99991672, <<"l","i","m","i","t">>),
      ApiError(99991401, <<"d","e","n","i","e","d">>),
      ApiError(0, <<"r","e","a","d"," ","E","C","O","N","N","R","E","S","E","T">>),
      ApiError(0, <<"S","o","c","k","e","t"," ","h","a","n","g"," ","u","p">>),
      ApiError(0, <<"d","e","n","i","e","d">>),
      PlainError(0, <<"E","T","I","M","E","D","O","U","T">>),
      PlainError(99991663, <<"f","r","e","q">>),
      ThrownString(<<"N","e","t","w","o","r","k"," ","d","o","w","n">>),
      ThrownString(<<"d","e","n","i","e","d">>) }

isRetryableError_CodesOnly(err) ==
    err.kind # "string" /\ err.code # 0 /\ err.code \in RETRYABLE_ERROR_CODES

isRetryableError(err) ==
    \/ err.kind # "string" /\ err.code # 0 /\ err.code \in RETRYABLE_ERROR_CODES
    \/ \E pat \in RETRYABLE_ERROR_PATTERNS : includesIgnoreCase(errMsg(err), pat)

\* Math.min(initialDelayMs * factor ** attempt, maxDelayMs)
computeRetryDelay(attempt) ==
    Min(RETRY_initialDelayMs * Pow(RETRY_factor, attempt), RETRY_maxDelayMs)

\* if (!isRetryableError(err) || attempt >= maxAttempts - 1) throw err
RetryGivesUp_OneMore(err, attempt) ==
    ~isRetryableError(err) \/ attempt >= RETRY_maxAttempts

RetryGivesUp(err, attempt) ==
    ~isRetryableError(err) \/ attempt >= RETRY_maxAttempts - 1

CallEntry(ok, err) == [op |-> "call", ok |-> ok, err |-> err, ms |-> 0]
SleepEntry(ms) == [op |-> "sleep", ok |-> FALSE, err |-> NoError, ms |-> ms]

\* one attempt: operation() settles; return, throw, or start the sleep
RetryCall ==
    /\ rPc = "call"
    /\ \/ /\ rTrace' = Append(rTrace, CallEntry(TRUE, NoError))
          /\ rPc' = "returned"
       \/ \E err \in RetryErrors :
             IF RetryGivesUp(err, rAttempt)
             THEN /\ rTrace' = Append(rTrace, CallEntry(FALSE, err))
                  /\ rPc' = "threw"
             ELSE /\ rTrace' = Append(Append(rTrace, CallEntry(FALSE, err)),
                                      SleepEntry(computeRetryDelay(rAttempt)))
                  /\ rPc' = "sleep"
    /\ UNCHANGED <<rAttempt, account, connVars, healthVars, evVars, storeVars, auxVars>>

\* the sleep resolved: attempt++ and the for condition
RetrySleepDone ==
    /\ rPc = "sleep"
    /\ rAttempt' = rAttempt + 1
    /\ rPc' = IF rAttempt + 1 < RETRY_maxAttempts THEN "call" ELSE "threw"
    /\ UNCHANGED <<rTrace, account, connVars, healthVars, evVars, storeVars, auxVars>>

(* --------------------------- specifications --------------------------- *)
IdleRetry == rPc = "idle" /\ rAttempt = 0 /\ rTrace = <<>>

\* no further monitorLarkProvider call, no isSenderAllowed call under study
\* no API client call, no chunkText call, no outbound delivery under study
IdleOut == api = <<>> /\ chunking = <<>> /\ reply = <<>> /\ fcall = <<>>

IdleAux ==
    /\ monitors = <<>>
    /\ qSender = <<>> /\ qAllowFrom = <<>> /\ qAllowed = "none"
    /\ IdleOut

IdleStore ==
    /\ approved = <<>>
    /\ pending = [s \in Senders |-> "none"]
    /\ pairReplies = [s \in Senders |-> 0]

\* accounts the monitor is explored with
MonitorAccounts ==
    {a \in Accounts : a.dmPolicy = "pairing" /\ a.allowFrom = <<SenderA>>
                      /\ a.requireMention = "unset"}

\* the monitor right after monitorLarkProvider registered its handlers, before
\* startConnection runs; the caller's signal may already be aborted
Init ==
    /\ account \in MonitorAccounts
    /\ stopped = FALSE
    /\ aborted \in BOOLEAN
    /\ currentWsClient = 0
    /\ reconnectAttempt = 0
    /\ loopPc = "top"
    /\ wake = "none"
    /\ backoffMs = 0
    /\ wsCreated = 0
    /\ wsStarts = 0
    /\ maxLogged = FALSE
    /\ connDropped = FALSE
    /\ consecFail = 0
    /\ everHealthy = FALSE
    /\ ev = [i \in Slots |-> IdleEv]
    /\ delivered = 0
    /\ IdleStore
    /\ IdleRetry
    /\ IdleAux

Handler(i) ==
    \/ StoreRead(i)
    \/ UpsertDone(i)
    \/ UpsertFailed(i)
    \/ PairSendDone(i)
    \/ RecordDone(i)
    \/ RecordFailed(i)
    \/ DispatchDone(i)

Next ==
    \/ LoopTop
    \/ StartResolved
    \/ StartRejected
    \/ ConnectedWake
    \/ SleepTimer
    \/ SleepAborted
    \/ ConnectionDropped
    \/ Stop
    \/ Abort
    \/ \E i \in Slots :
          Deliver(i, MaxLoopEvents, {SenderB}, {TextMsg(<<"h">>), TextMsg(<<" ">>)},
                  {<<FALSE, FALSE>>})
    \/ \E i \in Slots : Handler(i)

Spec == Init /\ [][Next]_vars

\* the gate, explored from the connected monitor over every account configuration,
\* one event at a time (concurrent handler invocations are explored by Spec and
\* SpecPair);
\* the pairing store is persistent and may already hold an approval
InitGate ==
    /\ account \in Accounts
    /\ stopped = FALSE
    /\ aborted = FALSE
    /\ currentWsClient = 1
    /\ reconnectAttempt = 0
    /\ loopPc = "connected"
    /\ wake = "pending"
    /\ backoffMs = 0
    /\ wsCreated = 1
    /\ wsStarts = 1
    /\ maxLogged = FALSE
    /\ connDropped = FALSE
    /\ consecFail = 0
    /\ everHealthy = TRUE
    /\ ev = [i \in Slots |-> IdleEv]
    /\ delivered = 0
    /\ approved \in {<<>>, <<SenderB>>}
    /\ pending = [s \in Senders |-> "none"]
    /\ pairReplies = [s \in Senders |-> 0]
    /\ IdleRetry
    /\ IdleAux

NextGate ==
    \/ \E i \in Slots :
          /\ \A j \in Slots : SlotFree(j)
          /\ Deliver(i, MaxEvents, Senders, GateMessages, CommandAnswers)
    \/ \E i \in Slots : Handler(i)
    \/ \E s \in Senders : Approve(s)

SpecGate == InitGate /\ [][NextGate]_vars

\* accounts under which an unknown direct sender is asked to pair
PairingAccounts ==
    {a \in Accounts : a.dmPolicy \in {"pairing", "unset"} /\ a.requireMention = "unset"}

\* the pairing branch, explored from the connected monitor with handler invocations
\* running concurrently and the operator approving requests
InitPair ==
    /\ account \in PairingAccounts
    /\ stopped = FALSE
    /\ aborted = FALSE
    /\ currentWsClient = 1
    /\ reconnectAttempt = 0
    /\ loopPc = "connected"
    /\ wake = "pending"
    /\ backoffMs = 0
    /\ wsCreated = 1
    /\ wsStarts = 1
    /\ maxLogged = FALSE
    /\ connDropped = FALSE
    /\ consecFail = 0
    /\ everHealthy = TRUE
    /\ ev = [i \in Slots |-> IdleEv]
    /\ delivered = 0
    /\ IdleStore
    /\ IdleRetry
    /\ IdleAux

NextPair ==
    \/ \E i \in Slots :
          Deliver(i, MaxEvents, Senders, {TextMsg(<<"h">>)}, {<<FALSE, FALSE>>})
    \/ \E i \in Slots : Handler(i)
    \/ \E s \in Senders : Approve(s)

SpecPair == InitPair /\ [][NextPair]_vars

\* events whose content is not JSON, next to a well-formed text message
ParseMessages ==
    { BadJsonMsg("text", <<"h">>), BadJsonMsg("text", <<" ">>),
      BadJsonMsg("image", <<" ", "k">>), TextMsg(<<"h">>) }

\* the connected monitor receiving such events, one handler invocation at a time
InitParse == InitPair

NextParse ==
    \/ \E i \in Slots :
          /\ \A j \in Slots : SlotFree(j)
          /\ Deliver(i, MaxEvents, Senders, ParseMessages, {<<FALSE, FALSE>>})
    \/ \E i \in Slots : Handler(i)
    \/ \E s \in Senders : Approve(s)

SpecParse == InitParse /\ [][NextParse]_vars

\* stop() and cancellation against handler invocations in flight: the connected
\* monitor, events handled concurrently, and the loop's wait ended by the abort
InitInflight ==
    /\ account \in MonitorAccounts
    /\ stopped = FALSE
    /\ aborted = FALSE
    /\ currentWsClient = 1
    /\ reconnectAttempt = 0
    /\ loopPc = "connected"
    /\ wake = "pending"
    /\ backoffMs = 0
    /\ wsCreated = 1
    /\ wsStarts = 1
    /\ maxLogged = FALSE
    /\ connDropped = FALSE
    /\ consecFail = 0
    /\ everHealthy = TRUE
    /\ ev = [i \in Slots |-> IdleEv]
    /\ delivered = 0
    /\ IdleStore
    /\ IdleRetry
    /\ IdleAux

NextInflight ==
    \/ \E i \in Slots :
          Deliver(i, MaxEvents, {SenderB}, {TextMsg(<<"h">>)}, {<<FALSE, FALSE>>})
    \/ \E i \in Slots : Handler(i)
    \/ Stop
    \/ Abort
    \/ ConnectedWake

SpecInflight == InitInflight /\ [][NextInflight]_vars

\* one withRetry call
InitRetry ==
    /\ account \in MonitorAccounts
    /\ stopped = FALSE
    /\ aborted = FALSE
    /\ currentWsClient = 0
    /\ reconnectAttempt = 0
    /\ loopPc = "top"
    /\ wake = "none"
    /\ backoffMs = 0
    /\ wsCreated = 0
    /\ wsStarts = 0
    /\ maxLogged = FALSE
    /\ connDropped = FALSE
    /\ consecFail = 0
    /\ everHealthy = FALSE
    /\ ev = [i \in Slots |-> IdleEv]
    /\ delivered = 0
    /\ IdleStore
    /\ IdleAux
    /\ rPc = "call"
    /\ rAttempt = 0
    /\ rTrace = <<>>

NextRetry == RetryCall \/ RetrySleepDone

SpecRetry == InitRetry /\ [][NextRetry]_vars

(* ------------- several monitorLarkProvider calls, one account ---------- *)
\* how many times the start entry point is invoked for the account
MaxMonitors == 2

\* failed start() calls explored per monitor instance
MaxInstFailures == 2

\* the closure state of one monitorLarkProvider call at its return: stopped = false,
\* reconnectAttempt = 0, and void startConnection() has run up to its await of
\* wsClient.start()
NewMonitor ==
    [stopped |-> FALSE, aborted |-> FALSE, reconnectAttempt |-> 0,
     loopPc |-> "starting", wake |-> "none"]

MonitorIds == DOMAIN monitors

\* the start entry point: every call builds its own closure and starts its own loop
monitorLarkProvider ==
    /\ Len(monitors) < MaxMonitors
    /\ monitors' = Append(monitors, NewMonitor)

\* while (!stopped && !abortSignal.aborted && reconnectAttempt < MAX_RECONNECT_ATTEMPTS)
InstLoopCond(m) ==
    ~m.stopped /\ ~m.aborted /\ m.reconnectAttempt < MAX_RECONNECT_ATTEMPTS

\* start() of instance k resolved
InstStartResolved(k) ==
    /\ monitors[k].loopPc = "starting"
    /\ monitors' = [monitors EXCEPT ![k].reconnectAttempt = 0,
                                    ![k].loopPc = "connected",
                                    ![k].wake = IF monitors[k].stopped \/ monitors[k].aborted
                                                THEN "resolved" ELSE "pending"]

\* the wait promise of instance k resolved: break
InstConnectedWake(k) ==
    /\ monitors[k].loopPc = "connected"
    /\ monitors[k].wake = "resolved"
    /\ monitors' = [monitors EXCEPT ![k].loopPc = "done", ![k].wake = "none"]

\* start() of instance k rejected: the catch block
InstStartRejected(k) ==
    /\ monitors[k].loopPc = "starting"
    /\ monitors[k].reconnectAttempt < MaxInstFailures
    /\ LET m == [monitors[k] EXCEPT !.reconnectAttempt = @ + 1]
       IN  monitors' = [monitors EXCEPT ![k] =
              IF m.stopped \/ m.aborted THEN [m EXCEPT !.loopPc = "done"]
              ELSE IF BackoffDue(m.reconnectAttempt)
                   THEN [m EXCEPT !.loopPc = "sleeping", !.wake = "pending"]
                   ELSE [m EXCEPT !.loopPc = "done"]]

\* the backoff timer of instance k fired: the loop test, then the next attempt
InstSleepTimer(k) ==
    /\ monitors[k].loopPc = "sleeping"
    /\ monitors[k].wake = "pending"
    /\ monitors' = [monitors EXCEPT ![k].wake = "none",
                                    ![k].loopPc = IF InstLoopCond(monitors[k])
                                                  THEN "starting" ELSE "done"]

\* sleepWithAbort of instance k resolved false: break
InstSleepAborted(k) ==
    /\ monitors[k].loopPc = "sleeping"
    /\ monitors[k].wake = "resolved"
    /\ monitors' = [monitors EXCEPT ![k].loopPc = "done", ![k].wake = "none"]

\* the stop function returned by call k
InstStop(k) ==
    /\ ~monitors[k].stopped
    /\ monitors' = [monitors EXCEPT ![k].stopped = TRUE]

\* the abort signal passed to call k fires
InstAbort(k) ==
    /\ ~monitors[k].aborted
    /\ monitors' = [monitors EXCEPT ![k].stopped = TRUE, ![k].aborted = TRUE,
                                    ![k].wake = WakeOnAbort(@)]

\* everything but the monitor instances
restVars ==
    <<account, connVars, healthVars, evVars, storeVars, retryVars, qSender, qAllowFrom,
      qAllowed, outVars>>

InitStart ==
    /\ account \in MonitorAccounts
    /\ stopped = FALSE
    /\ aborted = FALSE
    /\ currentWsClient = 0
    /\ reconnectAttempt = 0
    /\ loopPc = "top"
    /\ wake = "none"
    /\ backoffMs = 0
    /\ wsCreated = 0
    /\ wsStarts = 0
    /\ maxLogged = FALSE
    /\ connDropped = FALSE
    /\ consecFail = 0
    /\ everHealthy = FALSE
    /\ ev = [i \in Slots |-> IdleEv]
    /\ delivered = 0
    /\ IdleStore
    /\ IdleRetry
    /\ IdleAux

NextStart ==
    \/ monitorLarkProvider /\ UNCHANGED restVars
    \/ \E k \in MonitorIds : InstStartResolved(k) /\ UNCHANGED restVars
    \/ \E k \in MonitorIds : InstConnectedWake(k) /\ UNCHANGED restVars
    \/ \E k \in MonitorIds : InstStartRejected(k) /\ UNCHANGED restVars
    \/ \E k \in MonitorIds : InstSleepTimer(k) /\ UNCHANGED restVars
    \/ \E k \in MonitorIds : InstSleepAborted(k) /\ UNCHANGED restVars
    \/ \E k \in MonitorIds : InstStop(k) /\ UNCHANGED restVars
    \/ \E k \in MonitorIds : InstAbort(k) /\ UNCHANGED restVars

SpecStart == InitStart /\ [][NextStart]_vars

(* ----------------------- isSenderAllowed alone ------------------------ *)
\* longest allow-list the function is called with
MaxAllowLen == 2

\* sender ids: plain, upper case, with a channel prefix
AllowSenders ==
    { <<"a">>, <<"A">>, <<"b">>, <<"f", "s", ":", "a">>, <<"L", "a", "r", "k", ":", "A">> }

\* allow-list entries: plain, upper case, the wildcard, with one or two prefixes
AllowEntries ==
    { <<"a">>, <<"A">>, WILDCARD, <<"f", "s", ":", "a">>, <<"F", "S", ":", "A">>,
      <<"f", "e", "i", "s", "h", "u", ":", "b">>,
      <<"f", "s", ":", "f", "s", ":", "a">> }

AllowQueryLists == UNION {[1..n -> AllowEntries] : n \in 0..MaxAllowLen}

InitAllow ==
    /\ account \in MonitorAccounts
    /\ stopped = FALSE
    /\ aborted = FALSE
    /\ currentWsClient = 0
    /\ reconnectAttempt = 0
    /\ loopPc = "top"
    /\ wake = "none"
    /\ backoffMs = 0
    /\ wsCreated = 0
    /\ wsStarts = 0
    /\ maxLogged = FALSE
    /\ connDropped = FALSE
    /\ consecFail = 0
    /\ everHealthy = FALSE
    /\ ev = [i \in Slots |-> IdleEv]
    /\ delivered = 0
    /\ IdleStore
    /\ IdleRetry
    /\ monitors = <<>>
    /\ IdleOut
    /\ qSender \in AllowSenders
    /\ qAllowFrom \in AllowQueryLists
    /\ qAllowed = "none"

\* one call isSenderAllowed(qSender, qAllowFrom)
CallIsSenderAllowed ==
    /\ qAllowed = "none"
    /\ qAllowed' = IF isSenderAllowed(qSender, qAllowFrom) THEN "true" ELSE "false"
    /\ UNCHANGED <<account, connVars, healthVars, evVars, storeVars, retryVars, monitors,
                   qSender, qAllowFrom, outVars>>

NextAllow == CallIsSenderAllowed

SpecAllow == InitAllow /\ [][NextAllow]_vars

(* ------------------------- API client functions ----------------------- *)
\* the exported functions of the API client that call the platform; the two-way
\* functions are listed once per branch
ApiFunctions ==
    { "sendTextMessage.create", "sendTextMessage.reply", "sendImageMessage",
      "uploadImage", "uploadFile", "sendFileMessage", "sendAudioMessage",
      "sendCardMessage.create", "sendCardMessage.reply", "replyToMessage", "getBotInfo" }

UploadFunctions == {"uploadImage", "uploadFile"}

\* whether the function hands its client call to withRetry
UsesWithRetry_All(fn) == TRUE

UsesWithRetry(fn) == fn \notin {"replyToMessage", "getBotInfo"}

\* errors the platform call is explored with: busy code, network error, permission
ApiErrors ==
    { ApiError(99991400, <<"b","u","s","y">>),
      ApiError(0, <<"r","e","a","d"," ","E","C","O","N","N","R","E","S","E","T">>),
      ApiError(99991401, <<"d","e","n","i","e","d">>) }

\* Readable.from(buffer) inside the operation closure: evaluated on every attempt, it
\* yields a stream no one has read yet (streams are numbered as they are created)
StreamForAttempt_Shared(created) == 1

StreamForAttempt(created) == created + 1

\* the function was entered: nothing called yet
NewApiCall(fn) ==
    [fn |-> fn, pc |-> "call", attempt |-> 0, calls |-> 0, errs |-> <<>>,
     streams |-> <<>>, created |-> 0, result |-> "pending"]

\* what the function returns when its client call (or withRetry) throws: the catch
\* block's { ok: false, error }, or null in getBotInfo
FailureResult_Rethrows(fn) == "threw"

FailureResult(fn) == IF fn = "getBotInfo" THEN "null" ELSE "notOk"

\* what the function returns for a response without the expected id/key/bot
EmptyResult(fn) == IF fn = "getBotInfo" THEN "null" ELSE "notOk"

\* one invocation of the client method settles: the response is inspected, or the
\* error goes to withRetry's catch (when there is one) and then to the function's own
ApiInvoke ==
    /\ api # <<>>
    /\ api.pc = "call"
    /\ LET upload == api.fn \in UploadFunctions
           a1 == [api EXCEPT !.calls = @ + 1,
                             !.created = IF upload THEN @ + 1 ELSE @,
                             !.streams = IF upload
                                         THEN Append(@, StreamForAttempt(api.created))
                                         ELSE @]
       IN  \/ \E withId \in BOOLEAN :
                api' = [a1 EXCEPT !.pc = "done",
                                  !.result = IF withId THEN "ok" ELSE EmptyResult(api.fn)]
           \/ \E err \in ApiErrors :
                LET a2 == [a1 EXCEPT !.errs = Append(@, err)]
                IN  IF UsesWithRetry(api.fn) /\ ~RetryGivesUp(err, api.attempt)
                    THEN api' = [a2 EXCEPT !.pc = "sleep"]
                    ELSE api' = [a2 EXCEPT !.pc = "done", !.result = FailureResult(api.fn)]
    /\ UNCHANGED <<account, connVars, healthVars, evVars, storeVars, retryVars, monitors,
                   qSender, qAllowFrom, qAllowed, chunking, reply, fcall>>

\* withRetry's sleep resolved: attempt++ and the for condition
ApiSleepDone ==
    /\ api # <<>>
    /\ api.pc = "sleep"
    /\ api' = IF api.attempt + 1 < RETRY_maxAttempts
              THEN [api EXCEPT !.attempt = @ + 1, !.pc = "call"]
              ELSE [api EXCEPT !.attempt = @ + 1, !.pc = "done",
                               !.result = FailureResult(api.fn)]
    /\ UNCHANGED <<account, connVars, healthVars, evVars, storeVars, retryVars, monitors,
                   qSender, qAllowFrom, qAllowed, chunking, reply, fcall>>

InitApi ==
    /\ account \in MonitorAccounts
    /\ stopped = FALSE
    /\ aborted = FALSE
    /\ currentWsClient = 0
    /\ reconnectAttempt = 0
    /\ loopPc = "top"
    /\ wake = "none"
    /\ backoffMs = 0
    /\ wsCreated = 0
    /\ wsStarts = 0
    /\ maxLogged = FALSE
    /\ connDropped = FALSE
    /\ consecFail = 0
    /\ everHealthy = FALSE
    /\ ev = [i \in Slots |-> IdleEv]
    /\ delivered = 0
    /\ IdleStore
    /\ IdleRetry
    /\ monitors = <<>>
    /\ qSender = <<>> /\ qAllowFrom = <<>> /\ qAllowed = "none"
    /\ chunking = <<>> /\ reply = <<>> /\ fcall = <<>>
    /\ api \in {NewApiCall(fn) : fn \in ApiFunctions}

NextApi == ApiInvoke \/ ApiSleepDone

SpecApi == InitApi /\ [][NextApi]_vars

(* ------------------------------ chunkText ----------------------------- *)
\* longest text and largest limit the chunker is explored with
MaxTextLen == 5

MaxLimit == 3

\* String.prototype.lastIndexOf for one character: 0-based, -1 when absent
lastIndexOf(s, c) ==
    LET hits == {k \in 1..Len(s) : s[k] = c}
    IN  IF hits = {} THEN -1 ELSE (CHOOSE k \in hits : \A h \in hits : h <= k) - 1

\* String.prototype.slice(from, to) for 0 <= from, 0-based, to exclusive
slice(s, from, to) == SubSeq(s, from + 1, IF to < Len(s) THEN to ELSE Len(s))

\* variant preferring the last space to the last newline
breakIdx_SpaceFirst(window, limit) ==
    LET lastNewline == lastIndexOf(window, "\n")
        lastSpace   == lastIndexOf(window, " ")
        idx         == IF lastSpace > 0 THEN lastSpace ELSE lastNewline
    IN  IF idx <= 0 THEN limit ELSE idx

\* breakIdx: the last newline of the window when it is past index 0, else the last
\* space, else (none, or at index 0) the limit
breakIdx(window, limit) ==
    LET lastNewline == lastIndexOf(window, "\n")
        lastSpace   == lastIndexOf(window, " ")
        idx         == IF lastNewline > 0 THEN lastNewline ELSE lastSpace
    IN  IF idx <= 0 THEN limit ELSE idx

\* the chunk pushed for a raw slice
chunkOf_Raw(rawChunk) == rawChunk

chunkOf(rawChunk) == trimEnd(rawChunk)

\* brokeOnSeparator: the character at the break is whitespace and is skipped
brokeOnSeparator_Always(remaining, idx) == idx < Len(remaining)

brokeOnSeparator(remaining, idx) == idx < Len(remaining) /\ IsSpace(remaining[idx + 1])

\* the while loop of chunkText and the push of the rest after it
RECURSIVE chunkLoop(_, _, _)
chunkLoop(remaining, limit, chunks) ==
    IF Len(remaining) > limit
    THEN LET window    == slice(remaining, 0, limit)
             idx       == breakIdx(window, limit)
             chunk     == chunkOf(slice(remaining, 0, idx))
             pushed    == IF Len(chunk) > 0 THEN Append(chunks, chunk) ELSE chunks
             skip      == IF brokeOnSeparator(remaining, idx) THEN 1 ELSE 0
             nextStart == IF Len(remaining) < idx + skip THEN Len(remaining) ELSE idx + skip
         IN  chunkLoop(trimStart(slice(remaining, nextStart, Len(remaining))), limit, pushed)
    ELSE IF Len(remaining) > 0 THEN Append(chunks, remaining) ELSE chunks

\* history: the windows the loop looked at and the break index it chose for each
RECURSIVE chunkBreaks(_, _, _)
chunkBreaks(remaining, limit, breaks) ==
    IF limit > 0 /\ Len(remaining) > limit
    THEN LET window    == slice(remaining, 0, limit)
             idx       == breakIdx(window, limit)
             skip      == IF brokeOnSeparator(remaining, idx) THEN 1 ELSE 0
             nextStart == IF Len(remaining) < idx + skip THEN Len(remaining) ELSE idx + skip
         IN  chunkBreaks(trimStart(slice(remaining, nextStart, Len(remaining))), limit,
                         Append(breaks, [window |-> window, idx |-> idx]))
    ELSE breaks

chunkText(text, limit) ==
    IF text = <<>> THEN <<>>
    ELSE IF limit <= 0 \/ Len(text) <= limit THEN <<text>>
    ELSE chunkLoop(text, limit, <<>>)

\* the plugin's outbound.chunker: the same statements as chunkText
chunker(text, limit) == chunkText(text, limit)

\* texts over two letters and the three whitespace characters, up to MaxTextLen
ChunkChars == {"a", "b", " ", "\n", "\t"}

ChunkTexts == UNION {[1..n -> ChunkChars] : n \in 0..MaxTextLen}

ChunkLimits == 0..MaxLimit

Chunkers == {"chunkText", "outbound.chunker"}

\* a chunker was called with (text, limit)
InitChunk ==
    /\ account \in MonitorAccounts
    /\ stopped = FALSE
    /\ aborted = FALSE
    /\ currentWsClient = 0
    /\ reconnectAttempt = 0
    /\ loopPc = "top"
    /\ wake = "none"
    /\ backoffMs = 0
    /\ wsCreated = 0
    /\ wsStarts = 0
    /\ maxLogged = FALSE
    /\ connDropped = FALSE
    /\ consecFail = 0
    /\ everHealthy = FALSE
    /\ ev = [i \in Slots |-> IdleEv]
    /\ delivered = 0
    /\ IdleStore
    /\ IdleRetry
    /\ monitors = <<>>
    /\ qSender = <<>> /\ qAllowFrom = <<>> /\ qAllowed = "none"
    /\ api = <<>> /\ reply = <<>> /\ fcall = <<>>
    /\ chunking \in [fn : Chunkers, text : ChunkTexts, limit : ChunkLimits,
                     pc : {"call"}, chunks : {<<>>}, breaks : {<<>>}]

\* the chunker returns
ChunkReturn ==
    /\ chunking # <<>>
    /\ chunking.pc = "call"
    /\ chunking' = [chunking EXCEPT
                      !.pc = "done",
                      !.breaks = chunkBreaks(chunking.text, chunking.limit, <<>>),
                      !.chunks = IF chunking.fn = "chunkText"
                                 THEN chunkText(chunking.text, chunking.limit)
                                 ELSE chunker(chunking.text, chunking.limit)]
    /\ UNCHANGED <<account, connVars, healthVars, evVars, storeVars, retryVars, monitors,
                   qSender, qAllowFrom, qAllowed, api, reply, fcall>>

NextChunk == ChunkReturn

SpecChunk == InitChunk /\ [][NextChunk]_vars

(* --------------------------- deliverLarkReply ------------------------- *)
\* most media urls of one payload and most text chunks of one reply
MaxMedia == 2

MaxChunks == 2

\* one url per branch of detectMediaType
MediaUrls == {"u.png", "u.mp3", "u.mp4", "u.pdf", "u"}

detectMediaType(url) ==
    CASE url = "u.png" -> "image"
      [] url = "u.mp3" -> "audio"
      [] url = "u.mp4" -> "video"
      [] url = "u.pdf" -> "document"
      [] OTHER         -> "unknown"

\* the upload and the send function of the switch branch for a media type
UploadOp(mediaType) == IF mediaType = "image" THEN "uploadImage" ELSE "uploadFile"

SendOp(mediaType) ==
    CASE mediaType = "image" -> "sendImageMessage"
      [] mediaType = "audio" -> "sendAudioMessage"
      [] OTHER               -> "sendFileMessage"

\* payloads: an optional mediaUrl ("" when absent) and a list mediaUrls
Payloads ==
    [mediaUrl : MediaUrls \cup {""},
     mediaUrls : UNION {[1..n -> MediaUrls] : n \in 0..MaxMedia}]

\* the collected list: payload.mediaUrl first, then payload.mediaUrls
CollectMediaUrls_ListFirst(p) ==
    p.mediaUrls \o (IF p.mediaUrl # "" THEN <<p.mediaUrl>> ELSE <<>>)

CollectMediaUrls(p) ==
    (IF p.mediaUrl # "" THEN <<p.mediaUrl>> ELSE <<>>) \o p.mediaUrls

\* a call of the API client or of the core that the function awaits
Issued(op, arg, replyTo) == [op |-> op, arg |-> arg, replyTo |-> replyTo, res |-> "pending"]

\* the reply target of the next text chunk
ChunkReplyTo(r) == IF r.isFirstChunk THEN r.replyToId ELSE ""

\* isFirstChunk after a chunk's send was awaited, whatever its result
FirstChunkAfterSend_OnlyIfOk(res) == res # "ok"

FirstChunkAfterSend(res) == FALSE

\* the synchronous run from the top of the media loop to the next await: the next
\* url is loaded, or the text loop starts and its next chunk is sent, or the
\* function returns
DeliverContinue(r) ==
    IF r.i <= Len(r.urls)
    THEN [r EXCEPT !.pc = "await",
                   !.log = Append(@, Issued("loadWebMedia", r.urls[r.i], ""))]
    ELSE IF r.k <= r.nChunks
    THEN [r EXCEPT !.pc = "await",
                   !.log = Append(@, Issued("sendTextMessage", r.k, ChunkReplyTo(r)))]
    ELSE [r EXCEPT !.pc = "done", !.result = "void"]

\* the catch block of a media item: logError, and the loop goes on
AfterMediaFailure_Abort(r) == [r EXCEPT !.pc = "done", !.result = "threw"]

AfterMediaFailure(r) == DeliverContinue([r EXCEPT !.errors = @ + 1, !.i = @ + 1])

\* the awaited call and its settling
Pending(r) == r.log[Len(r.log)]

Settle(r, res) == [r EXCEPT !.log[Len(r.log)].res = res]

\* statusSink?.({ lastOutboundAt })
CallSink(r) == IF r.hasSink THEN [r EXCEPT !.sinkCalls = @ + 1] ELSE r

NewDeliver(payload, nChunks, replyToId, hasSink) ==
    [fn |-> "deliverLarkReply", payload |-> payload, urls |-> <<>>, nChunks |-> nChunks,
     replyToId |-> replyToId, hasSink |-> hasSink, pc |-> "new", i |-> 1, k |-> 1,
     isFirstChunk |-> TRUE, log |-> <<>>, sinkCalls |-> 0, errors |-> 0,
     result |-> "pending"]

replyRest == <<account, connVars, healthVars, evVars, storeVars, retryVars, monitors,
               qSender, qAllowFrom, qAllowed, api, chunking, fcall>>

\* deliverLarkReply is called: the urls are collected and the first call is issued
DeliverCall ==
    /\ reply # <<>>
    /\ reply.fn = "deliverLarkReply"
    /\ reply.pc = "new"
    /\ reply' = DeliverContinue([reply EXCEPT !.urls = CollectMediaUrls(reply.payload)])
    /\ UNCHANGED replyRest

DeliverAwaits(op) ==
    /\ reply # <<>>
    /\ reply.fn = "deliverLarkReply"
    /\ reply.pc = "await"
    /\ Pending(reply).op \in op

\* core.media.loadWebMedia settles: the buffer is uploaded, or the rejection is caught
DeliverLoadSettles ==
    /\ DeliverAwaits({"loadWebMedia"})
    /\ \/ reply' = [Settle(reply, "ok") EXCEPT
                      !.log = Append(@, Issued(UploadOp(detectMediaType(reply.urls[reply.i])),
                                               reply.urls[reply.i], ""))]
       \/ reply' = AfterMediaFailure(Settle(reply, "threw"))
    /\ UNCHANGED replyRest

\* uploadImage / uploadFile resolves: with a key the media message is sent, without
\* one the failure is logged and the item is over
DeliverUploadSettles ==
    /\ DeliverAwaits({"uploadImage", "uploadFile"})
    /\ \/ reply' = [Settle(reply, "ok") EXCEPT
                      !.log = Append(@, Issued(SendOp(detectMediaType(reply.urls[reply.i])),
                                               reply.urls[reply.i], ""))]
       \/ LET r == Settle(reply, "notOk")
          IN  reply' = DeliverContinue([r EXCEPT !.errors = @ + 1, !.i = @ + 1])
    /\ UNCHANGED replyRest

\* the media message's send resolves (its result is not looked at)
DeliverMediaSendSettles ==
    /\ DeliverAwaits({"sendImageMessage", "sendAudioMessage", "sendFileMessage"})
    /\ \E res \in {"ok", "notOk"} :
         reply' = DeliverContinue([CallSink(Settle(reply, res)) EXCEPT !.i = @ + 1])
    /\ UNCHANGED replyRest

\* a text chunk's send resolves (sendTextMessage never rejects)
DeliverTextSettles ==
    /\ DeliverAwaits({"sendTextMessage"})
    /\ \E res \in {"ok", "notOk"} :
         reply' = DeliverContinue([CallSink(Settle(reply, res)) EXCEPT
                                     !.isFirstChunk = FirstChunkAfterSend(res),
                                     !.k = @ + 1])
    /\ UNCHANGED replyRest

InitDeliver ==
    /\ account \in MonitorAccounts
    /\ stopped = FALSE
    /\ aborted = FALSE
    /\ currentWsClient = 0
    /\ reconnectAttempt = 0
    /\ loopPc = "top"
    /\ wake = "none"
    /\ backoffMs = 0
    /\ wsCreated = 0
    /\ wsStarts = 0
    /\ maxLogged = FALSE
    /\ connDropped = FALSE
    /\ consecFail = 0
    /\ everHealthy = FALSE
    /\ ev = [i \in Slots |-> IdleEv]
    /\ delivered = 0
    /\ IdleStore
    /\ IdleRetry
    /\ monitors = <<>>
    /\ qSender = <<>> /\ qAllowFrom = <<>> /\ qAllowed = "none"
    /\ api = <<>> /\ chunking = <<>> /\ fcall = <<>>
    /\ reply \in {NewDeliver(p, n, rt, s) :
                    p \in {q \in Payloads : Len(CollectMediaUrls(q)) <= MaxMedia},
                    n \in 0..MaxChunks, rt \in {"", "om_1"}, s \in BOOLEAN}

NextDeliver ==
    \/ DeliverCall
    \/ DeliverLoadSettles
    \/ DeliverUploadSettles
    \/ DeliverMediaSendSettles
    \/ DeliverTextSettles

SpecDeliver == InitDeliver /\ [][NextDeliver]_vars

(* ---------------------------- sendMessageLark ------------------------- *)
\* sendMessageLark(chatId, text, options): credentials and chat id present or not,
\* options.mediaUrl ("" when absent), the number of chunks of the trimmed text (0
\* when it is empty), options.replyToId ("" when absent)
NewSend(credsOk, chatOk, mediaUrl, nChunks, replyToId) ==
    [fn |-> "sendMessageLark", credsOk |-> credsOk, chatOk |-> chatOk,
     mediaUrl |-> mediaUrl, nChunks |-> nChunks, replyToId |-> replyToId,
     pc |-> "new", k |-> 1, log |-> <<>>, result |-> "pending"]

\* the reply target sendMessageLark passes with chunk k: options.replyToId
SendReplyTo(r, k) == r.replyToId

Returns(r, result) == [r EXCEPT !.pc = "done", !.result = result]

Awaits(r, call) == [r EXCEPT !.pc = "await", !.log = Append(@, call)]

SendAwaits(op) ==
    /\ reply # <<>>
    /\ reply.fn = "sendMessageLark"
    /\ reply.pc = "await"
    /\ Pending(reply).op = op

\* the function is called: the checks, then the media path or the first chunk
SendCall ==
    /\ reply # <<>>
    /\ reply.fn = "sendMessageLark"
    /\ reply.pc = "new"
    /\ reply' =
         IF ~reply.credsOk \/ ~reply.chatOk THEN Returns(reply, "notOk")
         ELSE IF reply.mediaUrl # ""
         THEN Awaits(reply, Issued("fetchRemoteMedia", reply.mediaUrl, ""))
         ELSE IF reply.nChunks = 0 THEN Returns(reply, "notOk")
         ELSE Awaits(reply, Issued("sendTextMessage", 1, SendReplyTo(reply, 1)))
    /\ UNCHANGED replyRest

\* if (!lastResult.ok) return lastResult
ReturnsFailedChunk_Never(res) == FALSE

ReturnsFailedChunk(res) == res # "ok"

\* a chunk's send resolves: a failure is returned at once, otherwise the next chunk
\* is sent or the last result is returned
SendTextSettles ==
    /\ SendAwaits("sendTextMessage")
    /\ reply.mediaUrl = ""
    /\ \E res \in {"ok", "notOk"} :
         LET r == [Settle(reply, res) EXCEPT !.k = @ + 1]
         IN  reply' = IF ReturnsFailedChunk(res) THEN Returns(Settle(reply, res), res)
                      ELSE IF r.k <= r.nChunks
                      THEN Awaits(r, Issued("sendTextMessage", r.k, SendReplyTo(r, r.k)))
                      ELSE Returns(r, res)
    /\ UNCHANGED replyRest

\* sendMediaMessageLark: the fetch settles
SendFetchSettles ==
    /\ SendAwaits("fetchRemoteMedia")
    /\ \/ reply' = Awaits(Settle(reply, "ok"), Issued("uploadImage", reply.mediaUrl, ""))
       \/ reply' = Returns(Settle(reply, "threw"), "notOk")
    /\ UNCHANGED replyRest

\* sendMediaMessageLark: the upload resolves
SendUploadSettles ==
    /\ SendAwaits("uploadImage")
    /\ \/ reply' = Awaits(Settle(reply, "ok"),
                          Issued("sendImageMessage", reply.mediaUrl, ""))
       \/ reply' = Returns(Settle(reply, "notOk"), "notOk")
    /\ UNCHANGED replyRest

\* sendMediaMessageLark: the image message's send resolves; a caption follows as a
\* text message of its own, without reply target
SendImageSettles ==
    /\ SendAwaits("sendImageMessage")
    /\ \/ reply' = Returns(Settle(reply, "notOk"), "notOk")
       \/ reply' = IF reply.nChunks > 0
                   THEN Awaits(Settle(reply, "ok"), Issued("sendTextMessage", 1, ""))
                   ELSE Returns(Settle(reply, "ok"), "ok")
    /\ UNCHANGED replyRest

\* sendMediaMessageLark: the caption's send resolves and its result is returned
SendCaptionSettles ==
    /\ SendAwaits("sendTextMessage")
    /\ reply.mediaUrl # ""
    /\ \E res \in {"ok", "notOk"} : reply' = Returns(Settle(reply, res), res)
    /\ UNCHANGED replyRest

InitSend ==
    /\ account \in MonitorAccounts
    /\ stopped = FALSE
    /\ aborted = FALSE
    /\ currentWsClient = 0
    /\ reconnectAttempt = 0
    /\ loopPc = "top"
    /\ wake = "none"
    /\ backoffMs = 0
    /\ wsCreated = 0
    /\ wsStarts = 0
    /\ maxLogged = FALSE
    /\ connDropped = FALSE
    /\ consecFail = 0
    /\ everHealthy = FALSE
    /\ ev = [i \in Slots |-> IdleEv]
    /\ delivered = 0
    /\ IdleStore
    /\ IdleRetry
    /\ monitors = <<>>
    /\ qSender = <<>> /\ qAllowFrom = <<>> /\ qAllowed = "none"
    /\ api = <<>> /\ chunking = <<>> /\ fcall = <<>>
    /\ reply \in {NewSend(c, ch, m, n, rt) :
                    c \in BOOLEAN, ch \in BOOLEAN, m \in MediaUrls \cup {""},
                    n \in 0..MaxChunks, rt \in {"", "om_1"}}

NextSend ==
    \/ SendCall
    \/ SendTextSettles
    \/ SendFetchSettles
    \/ SendUploadSettles
    \/ SendImageSettles
    \/ SendCaptionSettles

SpecSend == InitSend /\ [][NextSend]_vars

(* ----------------------------- computeBackoff ------------------------- *)
\* resolution of the jitter draws computeBackoff is explored with
BackoffSteps == 10

\* Math.random() lies in [0, 1): the draws r / BackoffSteps, and r = BackoffSteps for
\* the draws so close to 1 that Math.round gives the value of the limit
BackoffDraws == 0..BackoffSteps

\* the monitor, the stores and the other calls are not involved
Uninvolved ==
    /\ account \in MonitorAccounts
    /\ stopped = FALSE
    /\ aborted = FALSE
    /\ currentWsClient = 0
    /\ reconnectAttempt = 0
    /\ loopPc = "top"
    /\ wake = "none"
    /\ backoffMs = 0
    /\ wsCreated = 0
    /\ wsStarts = 0
    /\ maxLogged = FALSE
    /\ connDropped = FALSE
    /\ consecFail = 0
    /\ everHealthy = FALSE
    /\ ev = [i \in Slots |-> IdleEv]
    /\ delivered = 0
    /\ IdleStore
    /\ IdleRetry
    /\ monitors = <<>>
    /\ qSender = <<>> /\ qAllowFrom = <<>> /\ qAllowed = "none"

fcallRest == <<account, connVars, healthVars, evVars, storeVars, retryVars, monitors,
               qSender, qAllowFrom, qAllowed, api, chunking, reply>>

\* computeBackoff is called for an attempt and for the next one, each with a draw
InitBackoff ==
    /\ Uninvolved
    /\ api = <<>> /\ chunking = <<>> /\ reply = <<>>
    /\ fcall \in [fn : {"computeBackoff"}, attempt : 0..MAX_RECONNECT_ATTEMPTS,
                  r : BackoffDraws, rNext : BackoffDraws,
                  pc : {"call"}, delay : {0}, delayNext : {0}]

BackoffReturn ==
    /\ fcall # <<>>
    /\ fcall.fn = "computeBackoff"
    /\ fcall.pc = "call"
    /\ fcall' = [fcall EXCEPT
                   !.pc = "done",
                   !.delay = computeBackoffAt(fcall.attempt, fcall.r, BackoffSteps),
                   !.delayNext = computeBackoffAt(fcall.attempt + 1, fcall.rNext,
                                                  BackoffSteps)]
    /\ UNCHANGED fcallRest

NextBackoff == BackoffReturn

SpecBackoff == InitBackoff /\ [][NextBackoff]_vars

(* ------------------------ collectLarkStatusIssues --------------------- *)
\* most account snapshots in one call
MaxSnapshots == 2

\* a pattern a.*b, case-insensitive
includesThen(s, a, b) ==
    \E k \in 0..Len(s) :
        /\ includesIgnoreCase(SubSeq(s, 1, k), a)
        /\ includesIgnoreCase(SubSeq(s, k + 1, Len(s)), b)

PERMISSION_ERROR_PATTERNS ==
    { <<"p","e","r","m","i","s","s","i","o","n"," ","d","e","n","i","e","d">>,
      <<"9","9","9","9","1","4","0","3">>,
      <<"n","o"," ","p","e","r","m","i","s","s","i","o","n">>,
      <<"u","n","a","u","t","h","o","r","i","z","e","d">> }

CONNECTION_ERROR_PATTERNS ==
    { <<"E","C","O","N","N","R","E","S","E","T">>,
      <<"E","T","I","M","E","D","O","U","T">>,
      <<"E","N","O","T","F","O","U","N","D">>,
      <<"E","C","O","N","N","R","E","F","U","S","E","D">>,
      <<"s","o","c","k","e","t"," ","h","a","n","g"," ","u","p">>,
      <<"n","e","t","w","o","r","k">> }

isPermissionError(error) ==
    /\ error # Undefined /\ error # <<>>
    /\ \E pat \in PERMISSION_ERROR_PATTERNS : includesIgnoreCase(error, pat)

isConnectionError(error) ==
    /\ error # Undefined /\ error # <<>>
    /\ \/ \E pat \in CONNECTION_ERROR_PATTERNS : includesIgnoreCase(error, pat)
       \/ includesThen(error, <<"W","e","b","S","o","c","k","e","t">>,
                       <<"f","a","i","l","e","d">>)
       \/ includesThen(error, <<"c","o","n","n","e","c","t","i","o","n">>,
                       <<"f","a","i","l","e","d">>)

\* asBool / asString on a snapshot field: booleans are "true" / "false", a string in
\* a boolean field is "str", a missing field is "undefined" (Undefined for lastError)
asBool(val) == IF val \in {"true", "false"} THEN val ELSE "undefined"

Issue(accountId, kind, message) == [accountId |-> accountId, kind |-> kind, message |-> message]

\* one iteration of the for loop: the issues pushed for an entry
EntryIssues(entry) ==
    IF ~entry.isObject THEN <<>>
    ELSE LET accountId  == IF entry.accountId = "undefined" THEN "default" ELSE entry.accountId
             enabled    == asBool(entry.enabled) # "false"
             configured == asBool(entry.configured) = "true"
             lastError  == entry.lastError
         IN  IF ~enabled THEN <<>>
             ELSE IF ~configured THEN <<Issue(accountId, "config", "not configured")>>
             ELSE (IF entry.tokenSource = "env"
                   THEN <<Issue(accountId, "config", "from environment")>> ELSE <<>>)
               \o (IF entry.dmPolicy = "open"
                   THEN <<Issue(accountId, "config", "dmPolicy open")>> ELSE <<>>)
               \o (IF lastError # Undefined /\ lastError # <<>>
                   THEN IF isPermissionError(lastError)
                        THEN <<Issue(accountId, "auth", "permissions")>>
                        ELSE IF isConnectionError(lastError)
                        THEN <<Issue(accountId, "runtime", "connection error")>>
                        ELSE <<Issue(accountId, "runtime", "error")>>
                   ELSE <<>>)

\* the for loop over the accounts, front to back
RECURSIVE collectLoop_StopsAtDisabled(_, _)
collectLoop_StopsAtDisabled(accounts, issues) ==
    IF accounts = <<>> THEN issues
    ELSE IF Head(accounts).isObject /\ asBool(Head(accounts).enabled) = "false" THEN issues
    ELSE collectLoop_StopsAtDisabled(Tail(accounts), issues \o EntryIssues(Head(accounts)))

RECURSIVE collectLoop(_, _)
collectLoop(accounts, issues) ==
    IF accounts = <<>> THEN issues
    ELSE collectLoop(Tail(accounts), issues \o EntryIssues(Head(accounts)))

collectLarkStatusIssues(accounts) == collectLoop(accounts, <<>>)

\* the other fields of a snapshot, in five combinations
SnapshotProfiles ==
    { [accountId |-> "work", tokenSource |-> "env", dmPolicy |-> "open",
       lastError |-> <<"U","n","a","u","t","h","o","r","i","z","e","d">>],
      [accountId |-> "undefined", tokenSource |-> "undefined", dmPolicy |-> "pairing",
       lastError |-> <<"N","e","t","w","o","r","k">>],
      [accountId |-> "personal", tokenSource |-> "config", dmPolicy |-> "open",
       lastError |-> <<"b","o","o","m">>],
      [accountId |-> "work", tokenSource |-> "none", dmPolicy |-> "undefined",
       lastError |-> Undefined],
      [accountId |-> "personal", tokenSource |-> "env", dmPolicy |-> "allowlist",
       lastError |-> <<"W","e","b","S","o","c","k","e","t"," ","f","a","i","l","e","d">>] }

\* an entry that is not an object (readLarkAccountStatus returns null)
NullEntry ==
    [isObject |-> FALSE, accountId |-> "undefined", enabled |-> "undefined",
     configured |-> "undefined", tokenSource |-> "undefined", dmPolicy |-> "undefined",
     lastError |-> Undefined]

Snapshots ==
    {NullEntry} \cup
    { [isObject |-> TRUE, accountId |-> p.accountId, enabled |-> e, configured |-> c,
       tokenSource |-> p.tokenSource, dmPolicy |-> p.dmPolicy, lastError |-> p.lastError] :
         p \in SnapshotProfiles, e \in {"true", "false", "undefined"},
         c \in {"true", "false", "str"} }

InitIssues ==
    /\ Uninvolved
    /\ api = <<>> /\ chunking = <<>> /\ reply = <<>>
    /\ fcall \in [fn : {"collectLarkStatusIssues"},
                  accounts : UNION {[1..n -> Snapshots] : n \in 0..MaxSnapshots},
                  pc : {"call"}, issues : {<<>>}]

IssuesReturn ==
    /\ fcall # <<>>
    /\ fcall.fn = "collectLarkStatusIssues"
    /\ fcall.pc = "call"
    /\ fcall' = [fcall EXCEPT !.pc = "done",
                              !.issues = collectLarkStatusIssues(fcall.accounts)]
    /\ UNCHANGED fcallRest

NextIssues == IssuesReturn

SpecIssues == InitIssues /\ [][NextIssues]_vars

(* ------------------------------ probeLark ------------------------------ *)
\* the longest timeout, in clock ticks, the probe is explored with
MaxProbeMs == 2

\* app id and app secret samples: empty, blank, and usable with and without padding
ProbeIds == {<<>>, <<" ">>, <<"a">>, <<" ", "a">>}

\* how the bot.v3.info request ends: a response with bot data (either field may be
\* missing), a response without bot data, or a rejected request
BotRequests ==
    [kind : {"bot"}, app_name : {Undefined, <<"B">>}, open_id : {Undefined, <<"o">>}]
        \cup [kind : {"noBot", "error"}, app_name : {Undefined}, open_id : {Undefined}]

NullBot == [isNull |-> TRUE, app_name |-> Undefined, open_id |-> Undefined]

\* getBotInfo: the bot's fields when the response has bot data, null when it has
\* none and null when the request threw
getBotInfo(request) ==
    IF request.kind = "bot"
    THEN [isNull |-> FALSE, app_name |-> request.app_name, open_id |-> request.open_id]
    ELSE NullBot

ProbeResult(ok, bot, error, hasLatency, latencyMs) ==
    [ok |-> ok, bot |-> bot, error |-> error, hasLatency |-> hasLatency,
     latencyMs |-> latencyMs]

NoProbeResult == ProbeResult(FALSE, NullBot, "", FALSE, 0)

\* if (!appId?.trim() || !appSecret?.trim())
MissingCredentials(appId, appSecret) == trim(appId) = <<>> \/ trim(appSecret) = <<>>

\* if (botInfo) return {ok: true, bot, latencyMs}; return {ok: true, latencyMs}
AfterRace(botInfo, latencyMs) == ProbeResult(TRUE, botInfo, "", TRUE, latencyMs)

NoRequest == [kind |-> "none", app_name |-> Undefined, open_id |-> Undefined]

InitProbe ==
    /\ Uninvolved
    /\ api = <<>> /\ chunking = <<>> /\ reply = <<>>
    /\ fcall \in [fn : {"probeLark"}, appId : ProbeIds, appSecret : ProbeIds,
                  timeoutMs : 1..MaxProbeMs, pc : {"call"}, elapsed : {0},
                  request : {NoRequest}, result : {NoProbeResult}]

\* probeLark up to the await of the race
ProbeCall ==
    /\ fcall # <<>>
    /\ fcall.fn = "probeLark"
    /\ fcall.pc = "call"
    /\ fcall' = IF MissingCredentials(fcall.appId, fcall.appSecret)
                THEN [fcall EXCEPT !.pc = "done",
                                   !.result = ProbeResult(FALSE, NullBot,
                                                          "Missing credentials", FALSE, 0)]
                ELSE [fcall EXCEPT !.pc = "race"]
    /\ UNCHANGED fcallRest

\* the clock advances while the race is pending; the timer is due at timeoutMs
ProbeTick ==
    /\ fcall # <<>>
    /\ fcall.fn = "probeLark"
    /\ fcall.pc = "race"
    /\ fcall.elapsed < fcall.timeoutMs
    /\ fcall' = [fcall EXCEPT !.elapsed = @ + 1]
    /\ UNCHANGED fcallRest

\* getBotInfo settles first: it never rejects, the race resolves with its value
ProbeRequestSettles ==
    /\ fcall # <<>>
    /\ fcall.fn = "probeLark"
    /\ fcall.pc = "race"
    /\ \E request \in BotRequests :
          fcall' = [fcall EXCEPT !.pc = "done",
                                 !.request = request,
                                 !.result = AfterRace(getBotInfo(request), fcall.elapsed)]
    /\ UNCHANGED fcallRest

\* the timer fires first: the race rejects with Error("Timeout") and the catch block
\* returns it
ProbeTimeout ==
    /\ fcall # <<>>
    /\ fcall.fn = "probeLark"
    /\ fcall.pc = "race"
    /\ fcall.elapsed >= fcall.timeoutMs
    /\ fcall' = [fcall EXCEPT !.pc = "done",
                              !.result = ProbeResult(FALSE, NullBot, "Timeout", TRUE,
                                                     fcall.elapsed)]
    /\ UNCHANGED fcallRest

NextProbe ==
    \/ ProbeCall
    \/ ProbeTick
    \/ ProbeRequestSettles
    \/ ProbeTimeout

SpecProbe == InitProbe /\ [][NextProbe]_vars

(* ------------------------------- claims ------------------------------- *)
\* what an event has caused so far
Did(e, fx) == e.effects \cap fx # {}
Received(e) == e.pc # "idle"
IsDirect(e) == e.chat = "p2p"
IsGroupMsg(e) == e.chat = "group"
\* the allow-list the event was judged against: config entries, then the store's
EffectiveAllowFrom(e) == account.allowFrom \o e.storeAllowFrom
\* the store result is in: the event is past the await of readAllowFromStore
PastStoreRead(e) == e.pc \in {"upsert", "pairSend", "record", "dispatch", "done"}
ConfiguredDmPolicy == IF account.dmPolicy = "unset" THEN "pairing" ELSE account.dmPolicy
BackendEffects == {"record", "dispatch"}

\* C1: an event is recorded to the session store or dispatched to the backend only
\* if it passed the access gate: in a group, requireMention is false or the message
\* carries a mention; in a direct chat, dmPolicy is not "disabled" and either it is
\* "open" or the sender is in the effective allow-list.
C1_PassedGate(e) ==
    IF IsGroupMsg(e)
    THEN account.requireMention = "false" \/ e.mentions > 0
    ELSE /\ ConfiguredDmPolicy # "disabled"
         /\ \/ ConfiguredDmPolicy = "open"
            \/ isSenderAllowed(e.sender, EffectiveAllowFrom(e))

C1_GateBeforeBackend ==
    \A i \in Slots : Did(ev[i], BackendEffects) => C1_PassedGate(ev[i])

\* a direct message let through because the pairing store approved its sender
C1_Witness ==
    \E i \in Slots :
        /\ ev[i].outcome = "dispatched"
        /\ IsDirect(ev[i])
        /\ ConfiguredDmPolicy = "allowlist"
        /\ ~isSenderAllowed(ev[i].sender, account.allowFrom)
        /\ isSenderAllowed(ev[i].sender, ev[i].storeAllowFrom)

\* C2: after MAX_RECONNECT_ATTEMPTS (10) consecutive connection failures, with no
\* successful connect and no accepted inbound event in between, the connection loop
\* has ended normally and logged the max-attempts condition; there is never an 11th
\* consecutive failure, and when nothing ever reset the counter start() was invoked
\* exactly 10 times (and never more than 10 times up to then).
C2_MaxAttemptsStop ==
    /\ consecFail <= MAX_RECONNECT_ATTEMPTS
    /\ ~everHealthy => wsStarts <= MAX_RECONNECT_ATTEMPTS
    /\ consecFail = MAX_RECONNECT_ATTEMPTS =>
          /\ loopPc = "done"
          /\ maxLogged
          /\ ~everHealthy => wsStarts = MAX_RECONNECT_ATTEMPTS

\* ten failures in a row with no stop and no abort: the loop gave up by itself
C2_Witness ==
    /\ consecFail = MAX_RECONNECT_ATTEMPTS
    /\ ~everHealthy
    /\ ~stopped /\ ~aborted
    /\ wsStarts = MAX_RECONNECT_ATTEMPTS
    /\ loopPc = "done"
    /\ maxLogged

\* C3: once handle.stop() was called or the abort signal fired, no step creates a WS
\* client or invokes start() again, whatever the loop is doing (connecting,
\* connected or sleeping in backoff).
C3_NoAttemptAfterStop ==
    [][(stopped \/ aborted) => (wsStarts' = wsStarts /\ wsCreated' = wsCreated)]_vars

\* stop() arrived while the loop slept in backoff; the timer fired and the loop
\* ended at its test without a new attempt
C3_Witness ==
    /\ stopped /\ ~aborted
    /\ loopPc = "done"
    /\ consecFail > 0
    /\ consecFail < MAX_RECONNECT_ATTEMPTS
    /\ wsStarts = consecFail
    /\ ~everHealthy

\* the pairing case: a direct message under dmPolicy "pairing" (set or defaulted)
\* whose sender is not in the effective allow-list
C4_PairingCase(e) ==
    /\ IsDirect(e)
    /\ ConfiguredDmPolicy = "pairing"
    /\ e.rawBody # <<>>
    /\ PastStoreRead(e)
    /\ ~isSenderAllowed(e.sender, EffectiveAllowFrom(e))

C4_PairingReply(e) == << <<e.sender, e.code>> >>

InApproved(s) == \E k \in 1..Len(approved) : approved[k] = s

\* C4: under dmPolicy "pairing" a direct message from a sender outside the effective
\* allow-list asks the store for a pairing request; when the store created one
\* exactly one pairing reply carrying the sender id and the code is sent, when it
\* answers created=false none is sent, so a sender gets at most one pairing reply
\* before approval; in both cases the message is never routed, recorded or
\* dispatched.
C4_PairingReplyOnce ==
    /\ \A i \in Slots :
          LET e == ev[i]
          IN  C4_PairingCase(e) =>
                 /\ ~Did(e, {"route", "record", "dispatch"})
                 /\ Did(e, {"upsert"})
                 /\ e.pc \in {"upsert", "pairSend", "done"}
                 /\ e.pc = "upsert" => e.sent = <<>>
                 /\ e.pc = "pairSend" => e.created /\ e.sent = C4_PairingReply(e)
                 /\ e.pc = "done" =>
                       /\ e.outcome \in {"pairing", "error"}
                       /\ e.sent = IF e.created THEN C4_PairingReply(e) ELSE <<>>
    /\ \A s \in Senders :
          ~InApproved(s) =>
             /\ pairReplies[s] <= 1
             /\ pending[s] # "none" => pairReplies[s] = 1

\* the second message of a still unapproved sender: dropped without a second reply
C4_Witness ==
    \E i \in Slots :
        /\ C4_PairingCase(ev[i])
        /\ ev[i].pc = "done"
        /\ ev[i].outcome = "pairing"
        /\ ~ev[i].created
        /\ ev[i].sent = <<>>
        /\ ~InApproved(ev[i].sender)
        /\ pairReplies[ev[i].sender] = 1
        /\ delivered = 2

\* a direct message under dmPolicy "open" that is a control command from a sender
\* who is neither in the config allow-list nor approved in the pairing store
C5_OpenControlCase(e) ==
    /\ IsDirect(e)
    /\ ConfiguredDmPolicy = "open"
    /\ e.isControl
    /\ ~isSenderAllowed(e.sender, account.allowFrom \o approved)

\* C5 as claimed: under dmPolicy "open" a direct control command from a sender not
\* on the allow-list is dropped, neither recorded nor dispatched.
C5_OpenControlDropped ==
    \A i \in Slots : C5_OpenControlCase(ev[i]) => ~Did(ev[i], BackendEffects)

\* C5 as amended: under dmPolicy "open" a direct control command from a sender not
\* on the allow-list is not dropped by the gate; it is routed and recorded, no pairing
\* request or reply is made for it, and it carries the command authorization the
\* authorizer computed from the effective allow-list (undefined when none is
\* computed). Only group conversations drop unauthorized control commands.
C5_OpenControlForwarded ==
    \A i \in Slots :
        LET e == ev[i]
        IN  (C5_OpenControlCase(e) /\ PastStoreRead(e)) =>
               /\ e.storeAllowFrom \in {<<>>, approved}
               /\ Did(e, {"route"}) /\ Did(e, {"record"})
               /\ ~Did(e, {"upsert", "send", "statusOutbound"})
               /\ e.pc \in {"record", "dispatch", "done"}
               /\ e.pc = "done" => e.outcome \in {"dispatched", "error"}
               /\ e.cmdAuth = "undefined" <=> ~e.shouldAuth

\* an unauthorized control command in a direct chat reached the backend
C5_Witness ==
    \E i \in Slots :
        /\ C5_OpenControlCase(ev[i])
        /\ ev[i].cmdAuth = "false"
        /\ ev[i].outcome = "dispatched"

\* C6: under dmPolicy "disabled" every direct message is dropped before routing,
\* also when the sender matches the config allow-list, the pairing-approved store
\* or a wildcard entry; no pairing request is created and no reply is sent.
C6_DisabledDropsAll ==
    /\ \A i \in Slots :
          LET e == ev[i]
          IN  (IsDirect(e) /\ ConfiguredDmPolicy = "disabled") =>
                 /\ ~Did(e, {"route", "upsert", "send", "statusOutbound", "record",
                             "dispatch"})
                 /\ e.sent = <<>>
                 /\ e.pc \in {"readStore", "done"}
                 /\ e.pc = "done" => e.outcome \in {"empty", "disabled"}
                 /\ (e.pc = "done" /\ e.rawBody # <<>>) => e.outcome = "disabled"
    /\ ConfiguredDmPolicy = "disabled" =>
          \A s \in Senders : pending[s] = "none" /\ pairReplies[s] = 0

\* a sender approved in the store, under a wildcard allow-list, is still dropped
C6_Witness ==
    \E i \in Slots :
        /\ IsDirect(ev[i])
        /\ ConfiguredDmPolicy = "disabled"
        /\ account.allowFrom = <<WILDCARD>>
        /\ ev[i].storeAllowFrom = <<ev[i].sender>>
        /\ ev[i].outcome = "disabled"

C8_GroupControlDrop ==
    \A i \in Slots :
        LET e == ev[i]
        IN  (IsGroupMsg(e) /\ e.isControl /\ e.cmdAuth # "true") =>
               /\ e.pc = "done"
               /\ e.outcome = "controlDrop"
               /\ e.sent = <<>>
               /\ ~Did(e, {"upsert", "send", "statusOutbound", "record", "dispatch"})

\* a mentioned control command in a group, refused by the authorizer
C8_Witness ==
    \E i \in Slots :
        /\ IsGroupMsg(ev[i])
        /\ ev[i].mentions > 0
        /\ ev[i].isControl
        /\ ev[i].cmdAuth = "false"
        /\ ev[i].outcome = "controlDrop"

\* the attempts of a withRetry call so far
RetryCalls == {k \in 1..Len(rTrace) : rTrace[k].op = "call"}
RetryFailures == {k \in RetryCalls : ~rTrace[k].ok}
RetryLast == rTrace[Len(rTrace)]

\* C9: withRetry invokes the operation exactly maxAttempts (3) times when every
\* attempt fails with a retryable error and then throws; exactly once when the first
\* failure is not retryable; it stops at the first success; it never invokes the
\* operation more than 3 times and never sleeps after the final attempt.
C9_RetryAttempts ==
    /\ Cardinality(RetryCalls) <= RETRY_maxAttempts
    /\ \A k \in RetryCalls : rTrace[k].ok => k = Len(rTrace) /\ rPc = "returned"
    /\ rPc = "returned" => RetryLast.op = "call" /\ RetryLast.ok
    /\ rPc = "threw" =>
          /\ RetryLast.op = "call" /\ ~RetryLast.ok
          /\ RetryFailures = RetryCalls
          /\ (\A k \in RetryCalls : isRetryableError(rTrace[k].err)) =>
                Cardinality(RetryCalls) = RETRY_maxAttempts
          /\ ~isRetryableError(rTrace[1].err) => Cardinality(RetryCalls) = 1
    /\ \A k \in 1..Len(rTrace) :
          rTrace[k].op = "sleep" =>
             /\ Cardinality({j \in RetryCalls : j < k}) < RETRY_maxAttempts
             /\ rTrace[k].ms = computeRetryDelay(Cardinality({j \in RetryCalls : j < k}) - 1)
             /\ k = Len(rTrace) => rPc \in {"sleep", "call"}

\* three retryable failures in a row, then the failure is thrown
C9_Witness ==
    /\ rPc = "threw"
    /\ Cardinality(RetryCalls) = RETRY_maxAttempts
    /\ \A k \in RetryCalls : isRetryableError(rTrace[k].err)
    /\ Cardinality({k \in 1..Len(rTrace) : rTrace[k].op = "sleep"}) = RETRY_maxAttempts - 1

\* C10: an inbound event the transport delivers after stop() was called or the
\* abort signal fired is ignored: the handler returns at once, with no status
\* callback, no counter reset, no gate evaluation, no store access and no outbound
\* call for it.
C10_IgnoredAfterStop ==
    \A i \in Slots :
        ev[i].afterStop =>
            /\ ev[i].pc = "done"
            /\ ev[i].outcome = "ignored"
            /\ ev[i].effects = {}
            /\ ev[i].sent = <<>>
            /\ ev[i].rawBody = <<>>

\* an event delivered after stop(): the failure counter it would have reset is
\* still standing
C10_Witness ==
    \E i \in Slots :
        /\ ev[i].afterStop
        /\ ev[i].outcome = "ignored"
        /\ stopped /\ ~aborted
        /\ reconnectAttempt > 0
        /\ consecFail = reconnectAttempt

\* a step in which start() rejects while the manager is neither stopped nor aborted
StartFailsStep ==
    /\ loopPc = "starting"
    /\ reconnectAttempt' = reconnectAttempt + 1
    /\ ~stopped /\ ~aborted

\* a step in which the established connection drops
DropStep == ~connDropped /\ connDropped' /\ ~stopped /\ ~aborted

AcceptStep == delivered' = delivered + 1 /\ ~(stopped \/ aborted)

\* C12: whenever the handler accepts an inbound event (manager neither stopped nor
\* cancelled) the reconnect-attempt counter is 0 right after the step, and at every
\* moment the counter equals the number of failed start() calls since the last
\* accepted event or successful connect, so the cap counts only those.
C12_EventResetsCounter ==
    [][/\ AcceptStep => reconnectAttempt' = 0
       /\ reconnectAttempt' = consecFail']_vars

\* an event was accepted while the loop was backing off after a failure: the counter,
\* which the failure had raised, is back at 0
C12_Witness ==
    /\ loopPc = "sleeping"
    /\ reconnectAttempt = 0
    /\ \E i \in Slots : Did(ev[i], {"counterReset"}) /\ ~ev[i].afterStop

\* a step of the reconnect loop in which the awaited start() settles
StartSettles == loopPc = "starting" /\ loopPc' # "starting"

\* C13 as claimed: the reconnect-attempt counter is changed only by the reconnect
\* loop; no inbound event handling, stop(), cancellation or outbound delivery
\* changes it.
C13_OnlyLoopMutatesCounter ==
    [][reconnectAttempt' # reconnectAttempt => StartSettles]_vars

\* C13 as amended: the counter is changed only by the reconnect loop (when start()
\* settles) and by the event handler's reset to 0 when it accepts an event; stop(),
\* cancellation, a dropped connection and every later step of processing an event
\* (store, pairing reply, session record, dispatch) leave it as it is.
C13_LoopAndHandlerMutateCounter ==
    [][/\ reconnectAttempt' # reconnectAttempt =>
              \/ StartSettles
              \/ AcceptStep /\ reconnectAttempt' = 0
       /\ (stopped' # stopped \/ aborted' # aborted \/ connDropped' # connDropped) =>
              reconnectAttempt' = reconnectAttempt
       /\ (delivered' = delivered /\ ev' # ev) =>
              reconnectAttempt' = reconnectAttempt]_vars

\* stop() was called with the counter above 0, and an event accepted before that was
\* then dispatched to the backend: the counter kept its value
C13_Witness ==
    /\ stopped /\ ~aborted
    /\ reconnectAttempt > 0
    /\ \E i \in Slots : ev[i].outcome = "dispatched" /\ ~ev[i].afterStop

\* C14: when the abort signal fires during a backoff sleep, the sleep's promise is
\* resolved in that very step (the timer no longer decides), the loop can leave the
\* sleep only by ending, and start() is never called again once aborted.
C14_AbortEndsBackoff ==
    [][/\ (loopPc' = "sleeping" /\ aborted') => wake' = "resolved"
       /\ (loopPc = "sleeping" /\ aborted) => loopPc' \in {"sleeping", "done"}
       /\ aborted => (wsStarts' = wsStarts /\ wsCreated' = wsCreated)]_vars

\* the abort signal fired while the loop was sleeping in backoff
C14_Witness ==
    /\ loopPc = "sleeping"
    /\ aborted
    /\ wake = "resolved"
    /\ backoffMs > 0

\* the handler invocation in slot i is between two of its awaits
InFlight(i) == ev[i].pc \notin {"idle", "done"}

\* C15: stop() and cancellation leave every in-flight event as it is, and an
\* in-flight event always has its next step available whether or not the manager is
\* stopped; so an event accepted before the stop is still recorded, dispatched and
\* answered afterwards.
C15_InflightNotAborted ==
    [][/\ (stopped' # stopped \/ aborted' # aborted) => ev' = ev
       /\ \A i \in Slots : InFlight(i) => ENABLED Handler(i)]_vars

\* an event accepted before the stop was handed to the reply dispatcher after it and
\* completed
C15_Witness ==
    /\ stopped
    /\ \E i \in Slots :
          /\ ~ev[i].afterStop
          /\ ev[i].outcome = "dispatched"
          /\ Did(ev[i], {"afterStop"})

\* instance k has a connection attempt under way or a live connection and has not
\* been stopped
Live(k) == ~monitors[k].stopped /\ monitors[k].loopPc \in {"starting", "connected"}

\* C16: starting is idempotent: a call of monitorLarkProvider for an account whose
\* monitor is already running begins no second loop, so the account never has two
\* running instances with a connection attempt or a live connection each.
C16_StartIdempotent == Cardinality({k \in MonitorIds : Live(k)}) <= 1

\* slot i holds an accepted event with no text left after trimming and no image key
EmptyEvent(i) ==
    /\ Received(ev[i])
    /\ ~ev[i].afterStop
    /\ RawBody(ev[i].msg) = <<>>

\* C17 as claimed: an accepted event with empty text and no media marker has no side
\* effect at all: no status callback, no change of shared state, no store access, no
\* routing, no outbound call.
C17_EmptyNoEffects ==
    \A i \in Slots : EmptyEvent(i) => ev[i].effects = {}

\* C17 as amended: an accepted event with empty text and no media marker ends inside
\* the step that accepted it, before the gate; all it has caused is what the handler
\* does ahead of processMessage, the reset of the reconnect counter and the
\* lastInboundAt status callback: no store read or write, no routing, no outbound.
C17_EmptyDroppedBeforeGate ==
    \A i \in Slots :
        EmptyEvent(i) =>
            /\ ev[i].pc = "done"
            /\ ev[i].outcome = "empty"
            /\ ev[i].effects = {"statusInbound", "counterReset"}
            /\ ev[i].sent = <<>>

\* a whitespace-only text message was accepted and dropped
C17_Witness ==
    \E i \in Slots :
        /\ EmptyEvent(i)
        /\ ev[i].msg = TextMsg(<<" ">>)
        /\ ev[i].outcome = "empty"

\* an accepted event whose content JSON.parse rejects
Malformed(e) == Received(e) /\ ~e.afterStop /\ ~e.msg.json

\* C18 as claimed: an event with an unparseable content payload is dropped; it never
\* reaches the gate, routing or the backend.
C18_MalformedDropped ==
    \A i \in Slots :
        Malformed(ev[i]) =>
            /\ ev[i].pc = "done" => ev[i].outcome = "empty"
            /\ ~Did(ev[i], {"storeRead", "upsert", "send", "record", "dispatch"})

\* C18 as amended: when the content payload cannot be parsed, the raw content string
\* is taken as the message text; the event is dropped only if that string is blank,
\* and otherwise goes on to the gate like a text message. An error thrown while an
\* event is processed ends that event only: the monitor's connection state is not
\* touched.
C18_MalformedTakenAsText ==
    [][\A i \in Slots :
          /\ Malformed(ev'[i]) =>
                /\ ev'[i].rawBody = trim(ev'[i].msg.raw)
                /\ (ev'[i].outcome = "empty") <=> (trim(ev'[i].msg.raw) = <<>>)
          /\ (ev'[i].outcome = "error" /\ ev[i].outcome # "error") =>
                /\ ev'[i].pc = "done"
                /\ UNCHANGED <<connVars, healthVars>>]_vars

\* an event with unparseable content went through the gate and was dispatched to the
\* backend with the raw content as its text
C18_Witness ==
    \E i \in Slots :
        /\ Malformed(ev[i])
        /\ ev[i].rawBody = <<"k">>
        /\ ev[i].outcome = "dispatched"

\* C19: upsertPairingRequest is called and a pairing reply is sent only for a direct
\* message under dmPolicy "pairing" (the default when unset); under a policy other
\* than pairing, open and disabled, a direct message from a sender outside the
\* effective allow-list ends as unauthorized with no upsert, no outbound message, no
\* routing, and the pairing store is never written.
C19_PairingOnlyUnderPairing ==
    /\ \A i \in Slots :
          /\ Did(ev[i], {"upsert", "send"}) =>
                ConfiguredDmPolicy = "pairing" /\ IsDirect(ev[i])
          /\ ( /\ IsDirect(ev[i])
               /\ ev[i].rawBody # <<>>
               /\ PastStoreRead(ev[i])
               /\ ConfiguredDmPolicy \notin {"pairing", "open", "disabled"}
               /\ ~isSenderAllowed(ev[i].sender, EffectiveAllowFrom(ev[i])) ) =>
                /\ ev[i].pc = "done"
                /\ ev[i].outcome = "unauthorized"
                /\ ~Did(ev[i], {"upsert", "send", "route", "record", "dispatch"})
                /\ ev[i].sent = <<>>
    /\ ConfiguredDmPolicy # "pairing" =>
          \A s \in Senders : pending[s] = "none" /\ pairReplies[s] = 0

\* under dmPolicy "allowlist" a direct message from a sender outside the allow-list
\* was dropped
C19_Witness ==
    /\ ConfiguredDmPolicy = "allowlist"
    /\ \E i \in Slots :
          /\ IsDirect(ev[i])
          /\ ev[i].outcome = "unauthorized"
          /\ ~isSenderAllowed(ev[i].sender, EffectiveAllowFrom(ev[i]))

\* s starts with one of the channel prefixes (case-blind)
HasChannelPrefix(s) ==
    \E k \in 1..Len(ChannelPrefixes) : startsWith(toLowerCase(s), ChannelPrefixes[k])

HasWildcard(list) == \E k \in 1..Len(list) : list[k] = WILDCARD

\* C20 as claimed: the result is true exactly when the list holds the literal
\* wildcard or some entry equals the sender id, both compared in lower case with a
\* leading channel prefix removed, the sender id's prefix included.
C20_PrefixStrippedOnBothSides ==
    qAllowed # "none" =>
        ((qAllowed = "true") <=>
            \/ HasWildcard(qAllowFrom)
            \/ \E k \in 1..Len(qAllowFrom) :
                  stripChannelPrefix(toLowerCase(qAllowFrom[k]))
                      = stripChannelPrefix(toLowerCase(qSender)))

\* C20 as amended: the result is true exactly when the list holds the literal
\* wildcard or some entry, in lower case, is the lower-cased sender id itself (the
\* entry then carrying no channel prefix) or a channel prefix followed by it. The
\* sender id is lower-cased but never stripped: a sender id arriving with a prefix
\* matches only an entry that carries one prefix more.
C20_PrefixStrippedOnEntriesOnly ==
    qAllowed # "none" =>
        ((qAllowed = "true") <=>
            \/ HasWildcard(qAllowFrom)
            \/ \E k \in 1..Len(qAllowFrom) :
                  LET e == toLowerCase(qAllowFrom[k])
                      s == toLowerCase(qSender)
                  IN  \/ ~HasChannelPrefix(e) /\ e = s
                      \/ \E p \in 1..Len(ChannelPrefixes) : e = ChannelPrefixes[p] \o s)

\* an upper-case sender id was matched by a prefixed lower-case entry
C20_Witness ==
    /\ qSender = <<"A">>
    /\ qAllowFrom = << <<"f", "s", ":", "a">> >>
    /\ qAllowed = "true"

\* an ordinary (non-command) direct message under dmPolicy "open" whose sender is in
\* no allow-list, neither the configured one nor the pairing store's
C21_OpenOrdinaryCase(e) ==
    /\ Received(e)
    /\ ~e.afterStop
    /\ IsDirect(e)
    /\ ConfiguredDmPolicy = "open"
    /\ ~e.isControl
    /\ e.rawBody # <<>>

\* C21: under dmPolicy "open" an ordinary direct message is never dropped by the gate,
\* whoever sent it: once the (optional) store read is in, it is routed and recorded
\* and then handed to the reply dispatcher, with no pairing request or reply; it ends
\* as dispatched, or as an error only when recording the session throws. An image-only
\* message takes this path with the body "<media:image>".
C21_OpenOrdinaryForwarded ==
    \A i \in Slots :
        LET e == ev[i]
        IN  C21_OpenOrdinaryCase(e) =>
               /\ e.msg.type = "image" => e.rawBody = MEDIA_IMAGE
               /\ e.pc \in {"readStore", "record", "dispatch", "done"}
               /\ ~Did(e, {"upsert", "send", "statusOutbound"})
               /\ e.pc # "readStore" =>
                     /\ Did(e, {"route"}) /\ Did(e, {"record"})
                     /\ e.pc = "done" => e.outcome \in {"dispatched", "error"}
                     /\ e.outcome = "dispatched" => Did(e, {"dispatch"})

\* an image-only direct message from a sender on no allow-list was dispatched with
\* the media placeholder as its body
C21_Witness ==
    \E i \in Slots :
        /\ C21_OpenOrdinaryCase(ev[i])
        /\ ~isSenderAllowed(ev[i].sender, account.allowFrom \o approved)
        /\ ev[i].msg = ImageMsg(<<"k">>)
        /\ ev[i].rawBody = MEDIA_IMAGE
        /\ ev[i].outcome = "dispatched"

\* the error's code is one of the rate-limit/busy codes
HasRetryableCode(err) == err.code \in RETRYABLE_ERROR_CODES

\* the text pat occurs in the error's message, whatever the case
MessageMatches(err) ==
    \E pat \in RETRYABLE_ERROR_PATTERNS : includesIgnoreCase(err.message, pat)

\* the failed attempt at position k of the trace was followed by a sleep
RetriedAfter(k) == k < Len(rTrace) /\ rTrace[k + 1].op = "sleep"

\* the failed attempt at position k ended the call
ThrownAt(k) == k = Len(rTrace) /\ rPc = "threw"

\* the number of the attempt at position k, from 0
AttemptAt(k) == Cardinality({j \in RetryCalls : j < k})

\* C22 as claimed: an error is retried exactly when its code is a rate-limit/busy
\* code or its message matches a transient-network pattern; any other error makes
\* withRetry throw at once.
C22_RetryableByCodeOrMessage ==
    \A k \in RetryFailures :
        LET err == rTrace[k].err
        IN  IF HasRetryableCode(err) \/ MessageMatches(err)
            THEN AttemptAt(k) < RETRY_maxAttempts - 1 => RetriedAfter(k)
            ELSE ThrownAt(k)

\* C22 as amended: an error is retried exactly when its code is a rate-limit/busy
\* code, or it is an Error instance whose message, or a thrown string whose text,
\* matches a transient-network pattern (case-blind). The message property of an
\* object that is not an Error is never consulted. Any other error makes withRetry
\* throw at once, with no sleep and no further attempt.
C22_RetryableByCodeOrErrorMessage ==
    \A k \in RetryFailures :
        LET err == rTrace[k].err
        IN  IF HasRetryableCode(err) \/ (err.kind # "object" /\ MessageMatches(err))
            THEN /\ isRetryableError(err)
                 /\ AttemptAt(k) < RETRY_maxAttempts - 1 => RetriedAfter(k)
            ELSE /\ ~isRetryableError(err)
                 /\ ThrownAt(k)
                 /\ k = 1 => Cardinality(RetryCalls) = 1

\* a permission error on the second attempt, after a retried network error: thrown
\* at once
C22_Witness ==
    /\ rPc = "threw"
    /\ Len(rTrace) = 3
    /\ rTrace[1].err = ApiError(0, <<"r","e","a","d"," ","E","C","O","N","N","R","E","S","E","T">>)
    /\ rTrace[3].err = ApiError(99991401, <<"d","e","n","i","e","d">>)

\* the call of the API client function is over
ApiDone == api # <<>> /\ api.pc = "done"

\* the last error the platform call failed with
ApiLastErr == api.errs[Len(api.errs)]

\* C23: every platform call of the API client goes through the bounded retry: a
\* call that ended in failure on a retryable error was attempted maxAttempts (3)
\* times, whichever function made it.
C23_EveryCallRetried ==
    (ApiDone /\ api.errs # <<>> /\ api.result # "ok" /\ isRetryableError(ApiLastErr)) =>
        api.calls = RETRY_maxAttempts

\* C24: in uploadImage and uploadFile every attempt is handed a stream created for
\* that attempt: one stream per client invocation, and no stream that an earlier
\* attempt was given is passed to a later one.
C24_FreshStreamPerAttempt ==
    (api # <<>> /\ api.fn \in UploadFunctions) =>
        /\ Len(api.streams) = api.calls
        /\ \A i, j \in 1..Len(api.streams) : i < j => api.streams[i] # api.streams[j]

\* an upload that was retried twice: three attempts, three streams
C24_Witness ==
    /\ api # <<>>
    /\ api.fn \in UploadFunctions
    /\ api.calls = RETRY_maxAttempts
    /\ Len(api.streams) = RETRY_maxAttempts

\* the characters of s that are not whitespace, in order
RECURSIVE nonWhitespace(_)
nonWhitespace(s) ==
    IF s = <<>> THEN <<>>
    ELSE IF IsSpace(Head(s)) THEN nonWhitespace(Tail(s))
    ELSE <<Head(s)>> \o nonWhitespace(Tail(s))

\* the chunks concatenated in order
RECURSIVE concatChunks(_)
concatChunks(cs) == IF cs = <<>> THEN <<>> ELSE Head(cs) \o concatChunks(Tail(cs))

ChunkDone == chunking # <<>> /\ chunking.pc = "done"

\* C25: for every text and positive limit the chunks reconstruct the input up to
\* whitespace: their concatenation has exactly the input's non-whitespace
\* characters, in the input's order.
C25_ChunksReconstruct ==
    (ChunkDone /\ chunking.limit > 0) =>
        nonWhitespace(concatChunks(chunking.chunks)) = nonWhitespace(chunking.text)

\* a text split both at a separator and by a hard cut, with whitespace removed
C25_Witness ==
    /\ ChunkDone
    /\ chunking.limit > 0
    /\ Len(chunking.chunks) >= 2
    /\ Len(concatChunks(chunking.chunks)) < Len(chunking.text)
    /\ \E k \in 1..Len(chunking.chunks) : Len(chunking.chunks[k]) = chunking.limit
    /\ nonWhitespace(chunking.text) # <<>>

EndsWithSpace(s) == s # <<>> /\ IsSpace(s[Len(s)])

\* C26 as stated: no returned chunk, the last one included, ends with a whitespace
\* character.
C26_NoChunkEndsWithWhitespace ==
    (ChunkDone /\ chunking.limit > 0) => \A k \in 1..Len(chunking.chunks) : ~EndsWithSpace(chunking.chunks[k])

\* C26 as the code has it: the chunks cut inside the loop are trimmed at the end;
\* the last chunk (the rest of the text, or the whole text when it fits the limit)
\* is pushed as it is, so a chunk ends with whitespace only when it is the last
\* one and the text itself ends with whitespace.
C26_OnlyLastChunkKeepsTrailingWhitespace ==
    ChunkDone =>
        \A k \in 1..Len(chunking.chunks) :
            EndsWithSpace(chunking.chunks[k]) =>
                k = Len(chunking.chunks) /\ EndsWithSpace(chunking.text)

\* a split text whose first chunk lost trailing whitespace and whose last chunk
\* kept the text's
C26_Witness ==
    /\ ChunkDone
    /\ Len(chunking.chunks) >= 2
    /\ chunking.chunks[1] # slice(chunking.text, 0, Len(chunking.chunks[1]) + 1)
    /\ IsSpace(chunking.text[Len(chunking.chunks[1]) + 1])
    /\ IsSpace(chunking.text[Len(chunking.chunks[1]) + 2])
    /\ EndsWithSpace(chunking.chunks[Len(chunking.chunks)])

DeliverStarted == reply # <<>> /\ reply.fn = "deliverLarkReply" /\ reply.pc # "new"

DeliverDone == reply # <<>> /\ reply.fn = "deliverLarkReply" /\ reply.pc = "done"

IsTextSend(c) == c.op = "sendTextMessage"

IsLoad(c) == c.op = "loadWebMedia"

\* the text sends and the media loads of the reply, in the order they were issued
TextSends == SelectSeq(reply.log, IsTextSend)

MediaLoads == SelectSeq(reply.log, IsLoad)

\* C27: in deliverLarkReply only the first text chunk is sent with the reply-target
\* id; every later chunk is sent without a reply target, whether the earlier sends
\* succeeded or not.
C27_OnlyFirstChunkReplies ==
    DeliverStarted =>
        \A n \in 1..Len(TextSends) :
            TextSends[n].replyTo = (IF TextSends[n].arg = 1 THEN reply.replyToId ELSE "")

\* a reply to a message whose first chunk's send failed and whose next chunk was
\* sent as a fresh message
C27_Witness ==
    /\ DeliverDone
    /\ reply.replyToId # ""
    /\ Len(TextSends) >= 2
    /\ TextSends[1].res = "notOk" /\ TextSends[1].replyTo = reply.replyToId
    /\ TextSends[2].replyTo = ""

\* the payload's media in payload order: mediaUrl, then the list mediaUrls
PayloadOrder ==
    (IF reply.payload.mediaUrl # "" THEN <<reply.payload.mediaUrl>> ELSE <<>>)
        \o reply.payload.mediaUrls

\* C29: a failed load, upload or send of one media item, or a failed send of one
\* text chunk, stops nothing: deliverLarkReply never ends by throwing, and when it
\* returns every media item of the payload was attempted (loaded) and every text
\* chunk was sent, however many of the calls failed.
C29_FailuresIsolated ==
    (reply # <<>> /\ reply.fn = "deliverLarkReply") =>
        /\ reply.result # "threw"
        /\ reply.pc = "done" =>
              /\ Len(MediaLoads) = Len(PayloadOrder)
              /\ Len(TextSends) = reply.nChunks

\* a reply in which the first item's load was rejected, the second item's upload
\* failed and the first chunk's send failed, and which still went through every
\* item and every chunk
C29_Witness ==
    /\ DeliverDone
    /\ Len(MediaLoads) = 2
    /\ MediaLoads[1].res = "threw"
    /\ \E n \in 1..Len(reply.log) :
         reply.log[n].op \in {"uploadImage", "uploadFile"} /\ reply.log[n].res = "notOk"
    /\ Len(TextSends) >= 2
    /\ TextSends[1].res = "notOk"
    /\ reply.result = "void"

\* C30: the delivery of one reply is sequential and ordered: at most one call is
\* outstanding and it is the one issued last; every media call is issued before the
\* first text send; the media items are loaded in payload order (mediaUrl, then
\* mediaUrls); the text chunks are sent in chunk order.
C30_SequentialOrdered ==
    DeliverStarted =>
        /\ \A n \in 1..Len(reply.log) : reply.log[n].res = "pending" => n = Len(reply.log)
        /\ \A m, n \in 1..Len(reply.log) :
             (IsTextSend(reply.log[m]) /\ ~IsTextSend(reply.log[n])) => n < m
        /\ Len(MediaLoads) <= Len(PayloadOrder)
        /\ \A n \in 1..Len(MediaLoads) : MediaLoads[n].arg = PayloadOrder[n]
        /\ \A n \in 1..Len(TextSends) : TextSends[n].arg = n

\* a reply with a mediaUrl and a different url in mediaUrls, both sent, followed by
\* several text chunks
C30_Witness ==
    /\ DeliverDone
    /\ reply.payload.mediaUrl # ""
    /\ Len(reply.payload.mediaUrls) = 1
    /\ reply.payload.mediaUrls[1] # reply.payload.mediaUrl
    /\ Len(MediaLoads) = 2
    /\ \A n \in 1..Len(reply.log) : reply.log[n].res = "ok"
    /\ Len(TextSends) >= 2

SendStarted == reply # <<>> /\ reply.fn = "sendMessageLark" /\ reply.pc # "new"

\* C28: in sendMessageLark with options.replyToId set and a text of several chunks,
\* only the first chunk is sent as a reply to that message; the later chunks are
\* sent as fresh messages.
C28_SendOnlyFirstChunkReplies ==
    (SendStarted /\ reply.mediaUrl = "" /\ reply.replyToId # "") =>
        \A n \in 1..Len(reply.log) :
            (IsTextSend(reply.log[n]) /\ reply.log[n].arg > 1) => reply.log[n].replyTo = ""

MessageSendOps == {"sendTextMessage", "sendImageMessage", "sendAudioMessage", "sendFileMessage"}

\* the sends of the reply that resolved with ok = true
SucceededSends ==
    {n \in 1..Len(reply.log) : reply.log[n].op \in MessageSendOps /\ reply.log[n].res = "ok"}

\* C31: the status callback reports lastOutboundAt only for sends that succeeded:
\* it was never invoked more often than sends of the reply resolved with ok = true.
C31_SinkOnlyAfterSuccess ==
    (reply # <<>> /\ reply.fn = "deliverLarkReply" /\ reply.hasSink) =>
        reply.sinkCalls <= Cardinality(SucceededSends)

SendAndUploadFunctions ==
    { "sendTextMessage.create", "sendTextMessage.reply", "sendImageMessage",
      "sendFileMessage", "sendAudioMessage", "uploadImage", "uploadFile" }

\* C32: the send and upload functions of the API client never throw: a call that
\* is over returned ok or { ok: false, error }, and it returned ok = false whenever
\* its last client invocation failed (fatal error or retries exhausted) or the
\* response carried no id/key.
C32_ApiNeverThrows ==
    (ApiDone /\ api.fn \in SendAndUploadFunctions) =>
        /\ api.result \in {"ok", "notOk"}
        /\ Len(api.errs) = api.calls => api.result = "notOk"

\* an upload that failed on all three attempts and returned ok = false
C32_Witness ==
    /\ ApiDone
    /\ api.fn = "uploadFile"
    /\ api.calls = RETRY_maxAttempts
    /\ Len(api.errs) = RETRY_maxAttempts
    /\ api.result = "notOk"

BackoffDone == fcall # <<>> /\ fcall.fn = "computeBackoff" /\ fcall.pc = "done"

\* C33: for every attempt n in 1..10 and every jitter draw computeBackoff(n) is at
\* most 60000 ms, lies in [1000, 1200] ms for n = 1, and is not larger than
\* computeBackoff(n + 1) with any other draw.
C33_BackoffBounded ==
    (BackoffDone /\ fcall.attempt \in 1..MAX_RECONNECT_ATTEMPTS) =>
        /\ fcall.delay <= 60000
        /\ fcall.attempt = 1 => (1000 <= fcall.delay /\ fcall.delay <= 1200)
        /\ fcall.delay <= fcall.delayNext

\* attempt 6 with the largest draw against attempt 7 with the smallest, capped
C33_Witness ==
    /\ BackoffDone
    /\ fcall.attempt = 6
    /\ fcall.r = BackoffSteps /\ fcall.rNext = 0
    /\ fcall.delay = 38400
    /\ fcall.delayNext = 60000

IssuesDone == fcall # <<>> /\ fcall.fn = "collectLarkStatusIssues" /\ fcall.pc = "done"

\* what the claim says an account contributes: nothing when disabled, one config
\* issue when enabled and not configured; for the other accounts, what the function
\* returns for that account alone
ExpectedFor(entry) ==
    IF entry.isObject /\ entry.enabled = "false" THEN <<>>
    ELSE IF entry.isObject /\ entry.configured # "true"
    THEN <<Issue(IF entry.accountId = "undefined" THEN "default" ELSE entry.accountId,
                 "config", "not configured")>>
    ELSE collectLarkStatusIssues(<<entry>>)

RECURSIVE ExpectedIssues(_)
ExpectedIssues(accounts) ==
    IF accounts = <<>> THEN <<>>
    ELSE ExpectedFor(Head(accounts)) \o ExpectedIssues(Tail(accounts))

\* C34: per snapshot, a disabled account contributes no issue and an enabled account
\* without configured credentials exactly one issue of kind config, whatever its
\* other fields; the issues of the list are the issues of its accounts taken alone,
\* in order.
C34_IssuesPerAccount ==
    IssuesDone => fcall.issues = ExpectedIssues(fcall.accounts)

\* a disabled account followed by an enabled unconfigured one with tokenSource env,
\* dmPolicy open and a permission error: one issue, of the second account
C34_Witness ==
    /\ IssuesDone
    /\ Len(fcall.accounts) = 2
    /\ fcall.accounts[1].isObject /\ fcall.accounts[1].enabled = "false"
    /\ fcall.accounts[2].isObject
    /\ fcall.accounts[2].enabled = "true" /\ fcall.accounts[2].configured = "false"
    /\ fcall.accounts[2].tokenSource = "env" /\ fcall.accounts[2].dmPolicy = "open"
    /\ isPermissionError(fcall.accounts[2].lastError)
    /\ Len(fcall.issues) = 1
    /\ fcall.issues[1].kind = "config"
    /\ fcall.issues[1].accountId = fcall.accounts[2].accountId

\* a step of startConnection itself: the loop test, a settled start(), a resolved
\* wait or sleep (neither stop() nor the abort signal)
LoopStep ==
    \/ LoopTop
    \/ StartResolved
    \/ StartRejected
    \/ ConnectedWake
    \/ SleepTimer
    \/ SleepAborted

\* C35: after handle.stop() the connection loop terminates from every state without
\* the abort signal: as long as it has not finished, stopped and not aborted, the
\* loop has a step of its own to take (it is not left waiting for the abort signal).
C35_StopEndsLoop ==
    (stopped /\ ~aborted /\ loopPc # "done") => ENABLED LoopStep

\* the direct messages of sender s that the handler took up
DirectFrom(s) == {i \in Slots : Received(ev[i]) /\ IsDirect(ev[i]) /\ ev[i].sender = s}

\* s is in neither the configured allow-list nor the store of approved senders
UnknownSender(s) == ~InApproved(s) /\ ~isSenderAllowed(s, account.allowFrom)

\* C36: however the handler invocations for direct messages of one unknown sender
\* interleave under dmPolicy "pairing" (the store answering created = true once per
\* pending request), at most one of them sends a pairing reply and none of them is
\* routed, recorded or dispatched.
C36_ConcurrentPairingOnce ==
    \A s \in Senders :
        (ConfiguredDmPolicy = "pairing" /\ UnknownSender(s)) =>
            /\ Cardinality({i \in DirectFrom(s) : ev[i].sent # <<>>}) <= 1
            /\ Cardinality({i \in DirectFrom(s) : ev[i].created}) <= 1
            /\ \A i \in DirectFrom(s) : ~Did(ev[i], {"route", "record", "dispatch"})

\* two messages of one unknown sender in the pairing branch at the same time: the
\* first one's pairing reply is still being sent when the second one's upsert has
\* answered created = false and it has returned without a reply
C36_Witness ==
    \E i, j \in Slots :
        /\ i # j
        /\ ev[i].sender = ev[j].sender
        /\ UnknownSender(ev[i].sender)
        /\ IsDirect(ev[i]) /\ IsDirect(ev[j])
        /\ ev[i].pc = "pairSend" /\ ev[i].created
        /\ ev[j].pc = "done" /\ ev[j].outcome = "pairing"
        /\ ~ev[j].created /\ ev[j].sent = <<>>

SendDone == reply # <<>> /\ reply.fn = "sendMessageLark" /\ reply.pc = "done"

\* sendMessageLark was called with credentials, a chat id, no media and some text
SendsText ==
    reply.credsOk /\ reply.chatOk /\ reply.mediaUrl = "" /\ reply.nChunks > 0

\* C37: sendMessageLark sends the text chunks in order, every chunk after the
\* earlier ones succeeded; it returns the first failure without sending a later
\* chunk, and the last chunk's result when all succeeded. Without credentials, with
\* a blank chat id, or with blank text and no media it returns ok = false and has
\* made no API call.
C37_StopsAtFirstFailure ==
    (reply # <<>> /\ reply.fn = "sendMessageLark") =>
        /\ (~reply.credsOk \/ ~reply.chatOk \/ (reply.mediaUrl = "" /\ reply.nChunks = 0)) =>
              /\ reply.log = <<>>
              /\ reply.pc = "done" => reply.result = "notOk"
        /\ (SendStarted /\ SendsText) =>
              /\ Len(reply.log) \in 1..reply.nChunks
              /\ \A n \in 1..Len(reply.log) :
                    /\ reply.log[n].op = "sendTextMessage"
                    /\ reply.log[n].arg = n
                    /\ n < Len(reply.log) => reply.log[n].res = "ok"
              /\ reply.pc = "done" =>
                    /\ reply.result = reply.log[Len(reply.log)].res
                    /\ reply.result = "ok" => Len(reply.log) = reply.nChunks

\* the first of two chunks failed: its failure is returned, the second was not sent
C37_Witness ==
    /\ SendDone
    /\ SendsText
    /\ reply.nChunks = 2
    /\ Len(reply.log) = 1
    /\ reply.log[1].res = "notOk"
    /\ reply.result = "notOk"

\* the indices (0-based) at which character c stands in window w
IndicesOf(w, c) == {k - 1 : k \in {n \in 1..Len(w) : w[n] = c}}

LastOf(S) == CHOOSE k \in S : \A h \in S : h <= k

ChunksBounded ==
    \A k \in 1..Len(chunking.chunks) :
        /\ chunking.chunks[k] # <<>>
        /\ Len(chunking.chunks[k]) <= chunking.limit

\* C38 as stated: for non-empty text and limit > 0 the chunks are non-empty and at
\* most limit long, and every break is at the last newline of the window that is at
\* an index > 0, otherwise at the window's last space, otherwise at limit.
C38_BreakAtNewlineSpaceOrLimit ==
    (ChunkDone /\ chunking.text # <<>> /\ chunking.limit > 0) =>
        /\ ChunksBounded
        /\ \A n \in 1..Len(chunking.breaks) :
             LET w        == chunking.breaks[n].window
                 newlines == IndicesOf(w, "\n") \ {0}
                 spaces   == IndicesOf(w, " ")
             IN  chunking.breaks[n].idx =
                     IF newlines # {} THEN LastOf(newlines)
                     ELSE IF spaces # {} THEN LastOf(spaces)
                     ELSE chunking.limit

\* C38 as the code has it: a space counts only at an index > 0 as well; a window
\* whose only space is its first character is cut at limit.
C38_BreakAtSeparatorPastStart ==
    (ChunkDone /\ chunking.text # <<>> /\ chunking.limit > 0) =>
        /\ ChunksBounded
        /\ \A n \in 1..Len(chunking.breaks) :
             LET w        == chunking.breaks[n].window
                 newlines == IndicesOf(w, "\n") \ {0}
                 spaces   == IndicesOf(w, " ") \ {0}
             IN  chunking.breaks[n].idx =
                     IF newlines # {} THEN LastOf(newlines)
                     ELSE IF spaces # {} THEN LastOf(spaces)
                     ELSE chunking.limit

\* a window whose only space is its first character, with no newline past the
\* start, is cut at limit and yields a non-empty chunk
C38_Witness ==
    /\ ChunkDone
    /\ chunking.limit = 3
    /\ Len(chunking.chunks) >= 2
    /\ \E n \in 1..Len(chunking.breaks) :
         /\ IndicesOf(chunking.breaks[n].window, " ") = {0}
         /\ IndicesOf(chunking.breaks[n].window, "\n") = {}
         /\ chunking.breaks[n].idx = chunking.limit

\* the events whose read of the pairing-approved store was rejected
StoreReadFailed(e) == Received(e) /\ e.storeFailed

\* C39: when reading the pairing-approved store fails the handler goes on with the
\* config allow-list alone: the store contributes no entry, the event is past the
\* read in the handler's normal flow, and a direct message of a sender who is not on
\* the config allow-list is handled as from a sender who is not allowed (dropped when
\* the policy is disabled or allowlist, sent to the pairing branch under pairing,
\* where only a later failure of the pairing store or reply can end it in the
\* handler's catch), never routed, recorded or dispatched, even when the store has
\* approved the sender.
C39_StoreFailureFailsClosed ==
    \A i \in Slots :
        LET e == ev[i]
        IN  StoreReadFailed(e) =>
               /\ PastStoreRead(e)
               /\ e.storeAllowFrom = <<>>
               /\ EffectiveAllowFrom(e) = account.allowFrom
               /\ (ConfiguredDmPolicy # "open"
                     /\ ~isSenderAllowed(e.sender, account.allowFrom)) =>
                      /\ ~Did(e, {"route", "record", "dispatch"})
                      /\ ConfiguredDmPolicy = "disabled" =>
                            (e.pc = "done" /\ e.outcome = "disabled")
                      /\ ConfiguredDmPolicy = "allowlist" =>
                            (e.pc = "done" /\ e.outcome = "unauthorized")
                      /\ ConfiguredDmPolicy = "pairing" =>
                            /\ Did(e, {"upsert"})
                            /\ e.pc \in {"upsert", "pairSend", "done"}
                            /\ e.pc = "done" => e.outcome \in {"pairing", "error"}

\* the store has approved sender B from the start, B is not on the config allow-list,
\* the policy is allowlist, and B's direct message, whose store read failed, has been
\* dropped as unauthorized
C39_Witness ==
    \E i \in Slots :
        /\ StoreReadFailed(ev[i])
        /\ ev[i].sender = SenderB
        /\ approved = <<SenderB>>
        /\ pending[SenderB] = "none"
        /\ ~isSenderAllowed(SenderB, account.allowFrom)
        /\ ConfiguredDmPolicy = "allowlist"
        /\ ev[i].pc = "done" /\ ev[i].outcome = "unauthorized"

ProbeDone == fcall # <<>> /\ fcall.fn = "probeLark" /\ fcall.pc = "done"

\* C40: probeLark reports ok = false whenever the bot-info request did not succeed
\* (it was rejected, or its response had no bot data), and a result with ok = true
\* carries the bot info the platform returned.
C40_OkOnlyWithBotInfo ==
    ProbeDone =>
        /\ fcall.request.kind \in {"noBot", "error"} => ~fcall.result.ok
        /\ fcall.result.ok =>
              /\ fcall.request.kind = "bot"
              /\ ~fcall.result.bot.isNull

====
